---------------------------- MODULE Spec2Model ----------------------------
(***************************************************************************)
(* Gelber Gown Gemach: the appointment scheduling core.                    *)
(*                                                                         *)
(*   Calendar Rules      date-utils.ts      (parseTime,                    *)
(*                                           isValidAppointmentTime)       *)
(*   Schedule Overrides  schedule-config.ts (scheduleConfig, blockedDates) *)
(*   Slot Ledger         booking-handler.ts (isSlotAvailable,              *)
(*                                           getAvailableSlotsForDate)     *)
(*   Booking Engine      booking-handler.ts (createBooking, cancelBooking, *)
(*                                           rescheduleBooking,            *)
(*                                           updateBooking)                *)
(*                                                                         *)
(* A calendar date is a day number; day 0 is a Sunday, so getDay is the    *)
(* day number modulo 7.  A time label is the sequence of its characters,   *)
(* so that parseTime is modelled by what its regular expression does.      *)
(* Every request handler is a worker that runs one call of the Booking     *)
(* Engine; a call takes one step per awaited Firestore read or write, so   *)
(* steps of different workers interleave as the requests of concurrent     *)
(* serverless invocations do.                                              *)
(***************************************************************************)
EXTENDS Integers, Sequences, FiniteSets, TLC

VARIABLES
    bookings,        \* collection 'bookings': booking id -> document
    customers,       \* collection 'customers': customer id -> name
    scheduleConfig,  \* collection 'scheduleConfig': holds the document 'default'
    blockedDates,    \* collection 'blockedDates': dateStr -> document
    workers,         \* each request handler: its call and position in it
    calls,           \* number of Booking Engine calls issued so far
    admin,           \* number of schedule administration calls issued so far
    resp,            \* the last availability response handed to a caller
    cal,             \* the last isValidAppointmentTime evaluation
    conversations,   \* collection 'conversations': state id -> session document
    now,             \* the clock, in hours since Sunday 2024-03-03 00:00
    sms,             \* each SMS webhook request: its message and position
    cron             \* the daily check: its position in the reminder loop

vars == <<bookings, customers, scheduleConfig, blockedDates, workers, calls, admin,
          resp, cal, conversations, now, sms, cron>>

-----------------------------------------------------------------------------
(* Bounds of the model *)

\* Booking Engine calls issued by the concurrent request handlers (Spec)
MaxCalls == 3

\* SMS messages of one customer, and hours the clock advances (SpecSms)
MaxMsgs == 4

MaxHours == 2

\* createBooking calls issued one after the other (SpecParty)
MaxPartyCalls == 3

\* schedule administration calls, and bookings made beside them (SpecSched)
MaxAdmin == 2

MaxSchedCalls == 1

\* block and unblock requests of the admin (SpecBlock)
MaxBlockCalls == 3

\* Booking Engine calls issued one after the other (SpecSeq)
MaxSeqCalls == 3

\* Booking Engine calls with party sizes, one after the other (SpecSize)
MaxSizeCalls == 2

\* runs of the daily check (SpecRemind)
MaxCronRuns == 2

\* messages each of the two concurrent webhook requests handles (SpecPair)
MaxPairMsgs == 2

-----------------------------------------------------------------------------
(* Time labels *)

L1130AM == <<"1","1",":","3","0"," ","A","M">>
L1145AM == <<"1","1",":","4","5"," ","A","M">>
L1200PM == <<"1","2",":","0","0"," ","P","M">>
L1215PM == <<"1","2",":","1","5"," ","P","M">>
L730PM  == <<"7",":","3","0"," ","P","M">>
L745PM  == <<"7",":","4","5"," ","P","M">>
L800PM  == <<"8",":","0","0"," ","P","M">>
L815PM  == <<"8",":","1","5"," ","P","M">>
L830PM  == <<"8",":","3","0"," ","P","M">>
L845PM  == <<"8",":","4","5"," ","P","M">>
L900PM  == <<"9",":","0","0"," ","P","M">>
L915PM  == <<"9",":","1","5"," ","P","M">>

\* labels outside the canonical lists
L1130    == <<"1","1",":","3","0">>
L1130am  == <<"1","1",":","3","0","a","m">>
L1130PM  == <<"1","1",":","3","0"," ","P","M">>
L1000AM  == <<"1","0",":","0","0"," ","A","M">>
L1215AM  == <<"1","2",":","1","5"," ","A","M">>
L1230PM  == <<"1","2",":","3","0"," ","P","M">>
L1930    == <<"1","9",":","3","0">>
L930PM   == <<"9",":","3","0"," ","P","M">>
L9PM     == <<"9"," ","p","m">>
L915     == <<"9",":","1","5">>
Lnoon    == <<"n","o","o","n">>
Lempty   == << >>

APPOINTMENT_SLOTS_wednesday == <<L1130AM, L1145AM, L1200PM, L1215PM>>

APPOINTMENT_SLOTS_motzeiShabbos ==
    <<L730PM, L745PM, L800PM, L815PM, L830PM, L845PM, L900PM, L915PM>>

Range(s) == { s[i] : i \in DOMAIN s }

CanonicalLabels ==
    Range(APPOINTMENT_SLOTS_wednesday) \cup Range(APPOINTMENT_SLOTS_motzeiShabbos)

OtherLabels ==
    { L1130, L1130am, L1130PM, L1000AM, L1215AM, L1230PM, L1930, L930PM,
      L9PM, L915, Lnoon, Lempty }

AllLabels == CanonicalLabels \cup OtherLabels

-----------------------------------------------------------------------------
(* Calendar Rules: date-utils.ts *)

\* Date.prototype.getDay(): 0 is Sunday, 3 Wednesday, 6 Saturday
getDay(date) == date % 7

Digits == {"0","1","2","3","4","5","6","7","8","9"}

DigitVal(c) ==
    CASE c = "0" -> 0 [] c = "1" -> 1 [] c = "2" -> 2 [] c = "3" -> 3
      [] c = "4" -> 4 [] c = "5" -> 5 [] c = "6" -> 6 [] c = "7" -> 7
      [] c = "8" -> 8 [] c = "9" -> 9

IsDigitAt(s, i) == i >= 1 /\ i <= Len(s) /\ s[i] \in Digits

\* the value parseTime returns when the regular expression does not match
NoTime == [hours |-> -1, minutes |-> -1]

\* the position of the first character of s at or after position from that is
\* not in the set chars; Len(s) + 1 when there is none
skipChars(s, from, chars) ==
    CHOOSE p \in from..(Len(s)+1) :
        /\ \A q \in from..(p-1) : s[q] \in chars
        /\ (p <= Len(s) => s[p] \notin chars)

\* (am|pm)? at position n, case-insensitive
periodAt(s, n) ==
    IF n + 1 <= Len(s) /\ s[n+1] \in {"m", "M"} /\ s[n] \in {"p", "P"} THEN "pm"
    ELSE IF n + 1 <= Len(s) /\ s[n+1] \in {"m", "M"} /\ s[n] \in {"a", "A"} THEN "am"
    ELSE "none"

\* parseTime, lines 100-110: the 12-hour adjustment
adjustHours(hours, minutes, period) ==
    [ hours   |-> IF period = "pm" /\ hours # 12 THEN hours + 12
                  ELSE IF period = "am" /\ hours = 12 THEN 0
                  ELSE hours,
      minutes |-> minutes ]

\* (\d{2})?\s*(am|pm)? at position k, after the hour digits and the colon
matchMinutes(s, k, hours) ==
    IF IsDigitAt(s, k) /\ IsDigitAt(s, k+1)
    THEN adjustHours(hours, 10 * DigitVal(s[k]) + DigitVal(s[k+1]),
                     periodAt(s, skipChars(s, k+2, {" "})))
    ELSE adjustHours(hours, 0, periodAt(s, skipChars(s, k, {" "})))

\* :? at position j, after the hour digits
matchColon(s, j, hours) ==
    matchMinutes(s, IF j <= Len(s) /\ s[j] = ":" THEN j + 1 ELSE j, hours)

\* (\d{1,2}) at position i, the first digit of s
matchHours(s, i) ==
    IF IsDigitAt(s, i+1)
    THEN matchColon(s, i + 2, 10 * DigitVal(s[i]) + DigitVal(s[i+1]))
    ELSE matchColon(s, i + 1, DigitVal(s[i]))

\* /(\d{1,2}):?(\d{2})?\s*(am|pm)?/i : the leftmost match starts at the first
\* digit; every later part is optional and greedy, so the match never backtracks
parseTime(timeStr) ==
    IF \A i \in 1..Len(timeStr) : timeStr[i] \notin Digits
    THEN NoTime
    ELSE matchHours(timeStr, CHOOSE p \in 1..Len(timeStr) :
                                 /\ timeStr[p] \in Digits
                                 /\ \A q \in 1..(p-1) : timeStr[q] \notin Digits)

\* isValidAppointmentTime, lines 120-149, on the weekday and the parsed time
validTime(dayOfWeek, time) ==
    IF time = NoTime THEN FALSE
    ELSE IF dayOfWeek = 3
         THEN \/ time.hours = 11 /\ (time.minutes = 30 \/ time.minutes = 45)
              \/ time.hours = 12 /\ (time.minutes = 0 \/ time.minutes = 15)
    ELSE IF dayOfWeek = 6
         THEN /\ time.hours >= 19 /\ time.hours <= 21
              /\ time.minutes \in {0, 15, 30, 45}
              /\ ~(time.hours = 21 /\ time.minutes > 15)
    ELSE FALSE

isValidAppointmentTime(date, timeStr) == validTime(getDay(date), parseTime(timeStr))

-----------------------------------------------------------------------------
(* The values the calls are issued with *)

\* customer phone numbers as the callers pass them (normalized, E.164)
Phones == {"+15551110000", "+15552220000"}

\* the wedding date the callers give, as a day number
WeddingDay == 40

\* Date.toISOString().split('T')[0] of the dates the model uses: day 0 is
\* Sunday 2024-03-03
dateStrOf(date) ==
    CASE date = 0 -> "2024-03-03"
      [] date = 1 -> "2024-03-04"
      [] date = 2 -> "2024-03-05"
      [] date = 3 -> "2024-03-06"
      [] date = 4 -> "2024-03-07"
      [] date = 5 -> "2024-03-08"
      [] date = 6 -> "2024-03-09"

\* a property the caller left out of an options object
Undefined == "undefined"

Statuses == {"pending", "confirmed", "completed", "cancelled", "no-show"}

Workers == {"w1", "w2"}

\* phone.replace(/\D/g, '')
customerIdOf(phone) ==
    CASE phone = "+15551110000" -> "15551110000"
      [] phone = "+15552220000" -> "15552220000"
      [] phone = "+15553330000" -> "15553330000"
      [] phone = "+15554440000" -> "15554440000"
      [] phone = "+15555550000" -> "15555550000"

\* `${customer.id}_${data.appointmentDate.getTime()}`
bookingIdOf(customerId, date) == <<customerId, date>>

NoDoc == "NoDoc"

-----------------------------------------------------------------------------
(* Slot Ledger: booking-handler.ts *)

\* the statuses the availability query counts as occupying a slot
\* a variant in which a cancelled booking still occupies its slot
OccupyingStatuses_withCancelled == {"pending", "confirmed", "cancelled"}

OccupyingStatuses == {"pending", "confirmed"}

\* the bookings query of isSlotAvailable, on a store b
slotQuery(b, date, slotTime) ==
    { id \in DOMAIN b :
        /\ b[id].appointmentDate = date
        /\ b[id].slotTime = slotTime
        /\ b[id].status \in OccupyingStatuses }

isSlotAvailable(date, slotTime) ==
    IF ~isValidAppointmentTime(date, slotTime)
    THEN FALSE
    ELSE slotQuery(bookings, date, slotTime) = {}

\* getBookingsNeedingReminder: the confirmed bookings of the day whose
\* day-before reminder has not been sent
getBookingsNeedingReminder(reminderDate) ==
    { id \in DOMAIN bookings :
        /\ bookings[id].appointmentDate = reminderDate
        /\ bookings[id].status = "confirmed"
        /\ bookings[id].dayBeforeReminderSent = FALSE }

\* the weekday's list of getAvailableSlotsForDate
possibleSlots(date) ==
    IF getDay(date) = 3 THEN APPOINTMENT_SLOTS_wednesday
    ELSE IF getDay(date) = 6 THEN APPOINTMENT_SLOTS_motzeiShabbos
    ELSE << >>

getAvailableSlotsForDate(date) ==
    SelectSeq(possibleSlots(date), LAMBDA slot : isSlotAvailable(date, slot))

-----------------------------------------------------------------------------
(* Booking Engine: booking-handler.ts *)

\* upsertCustomer: the customers collection after the call
upsertCustomer(phone, name) ==
    LET customerId == customerIdOf(phone)
    IN [c \in DOMAIN customers \cup {customerId} |->
            IF c = customerId THEN name ELSE customers[c]]

\* the list whose last entry a group of 5-6 must book
groupSlots(date) ==
    IF getDay(date) = 3 THEN APPOINTMENT_SLOTS_wednesday
    ELSE APPOINTMENT_SLOTS_motzeiShabbos

lastSlot(date) == groupSlots(date)[Len(groupSlots(date))]

\* variant: the last-slot rule starting at a group of six
groupSizeCheck_fromSix(date, slotTime, groupSize) ==
    IF groupSize > 5 /\ groupSize <= 6
    THEN IF slotTime # lastSlot(date) THEN "PartySizeRequiresLastSlot" ELSE "ok"
    ELSE IF groupSize > 6 THEN "PartySizeExceeded"
    ELSE "ok"

\* variant: a group of seven admitted under the last-slot rule
groupSizeCheck_uptoSeven(date, slotTime, groupSize) ==
    IF groupSize > 4 /\ groupSize <= 7
    THEN IF slotTime # lastSlot(date) THEN "PartySizeRequiresLastSlot" ELSE "ok"
    ELSE IF groupSize > 7 THEN "PartySizeExceeded"
    ELSE "ok"

\* the outcome of the group-size checks of createBooking
groupSizeCheck(date, slotTime, groupSize) ==
    IF groupSize > 4 /\ groupSize <= 6
    THEN IF slotTime # lastSlot(date) THEN "PartySizeRequiresLastSlot" ELSE "ok"
    ELSE IF groupSize > 6 THEN "PartySizeExceeded"
    ELSE "ok"

\* variant: the double slot starting at a group of four
slotDurationOf_fromFour(groupSize) == IF groupSize >= 4 THEN 30 ELSE 15

slotDurationOf(groupSize) == IF groupSize > 4 THEN 30 ELSE 15

\* the document createBooking builds
newBooking(phone, name, date, slotTime, groupSize) ==
    [ customerId            |-> customerIdOf(phone),
      customerName          |-> name,
      customerPhone         |-> phone,
      appointmentDate       |-> date,
      slotTime              |-> slotTime,
      slotDuration          |-> slotDurationOf(groupSize),
      groupSize             |-> groupSize,
      weddingDate           |-> WeddingDay,
      status                |-> "confirmed",
      gownPickedUp          |-> FALSE,
      gownReturned          |-> FALSE,
      donationPaid          |-> FALSE,
      confirmationSent      |-> FALSE,
      dayBeforeReminderSent |-> FALSE,
      returnReminderSent    |-> FALSE ]

\* DocumentReference.set: create or replace the document
setDoc(b, id, document) ==
    [i \in DOMAIN b \cup {id} |-> IF i = id THEN document ELSE b[i]]

\* DocumentReference.update: overwrite the patched fields of an existing document
updateDoc(b, id, patch) ==
    [b EXCEPT ![id] =
        [f \in DOMAIN b[id] |-> IF f \in DOMAIN patch THEN patch[f] ELSE b[id][f]]]

\* the workers whose call is between its first and its last store access
InFlight == { w \in Workers : workers[w].pc \notin {"idle", "done"} }

IdleWorker ==
    [ pc |-> "idle", op |-> "none", phone |-> "", name |-> "", id |-> <<>>,
      date |-> 0, slot |-> <<>>, size |-> 0, patch |-> <<>>, res |-> "none",
      ret |-> NoDoc, conc |-> {}, freeAtStart |-> FALSE ]

\* a request handler takes its next call when it runs none
CanStart(w) == workers[w].pc \in {"idle", "done"}

\* handler w begins the call described by record call; conc of a call holds the
\* handlers whose present call was under way when the call began
beginCall(w, call) ==
    [v \in Workers |->
        IF v = w THEN [call EXCEPT !.conc = InFlight]
        ELSE [workers[v] EXCEPT !.conc = @ \ {w}]]

\* createBooking, line 122: handler w enters the call and upserts the customer
createBookingEnter(w, phone, name, date, slotTime, groupSize) ==
    /\ CanStart(w)
    /\ customers' = upsertCustomer(phone, name)
    /\ workers' = beginCall(w,
          [IdleWorker EXCEPT !.pc = "cb_check", !.op = "create", !.phone = phone,
                             !.name = name, !.date = date, !.slot = slotTime,
                             !.size = groupSize,
                             !.freeAtStart = isSlotAvailable(date, slotTime)])
    /\ calls' = calls + 1

\* createBooking called directly with a slot time
CreateStart(w, phone, name, date, slotTime, groupSize) ==
    /\ createBookingEnter(w, phone, name, date, slotTime, groupSize)
    /\ UNCHANGED <<bookings, scheduleConfig, blockedDates, admin, resp, cal,
                   conversations, now, sms, cron>>

\* createBooking, lines 124-127: the availability query
CreateCheck(w) ==
    /\ workers[w].pc = "cb_check"
    /\ workers' = [workers EXCEPT ![w] =
          IF isSlotAvailable(workers[w].date, workers[w].slot)
          THEN [@ EXCEPT !.pc = "cb_write"]
          ELSE [@ EXCEPT !.pc = "done", !.res = "SlotUnavailable"]]
    /\ UNCHANGED <<bookings, customers, scheduleConfig, blockedDates, calls, admin, resp, cal,
                   conversations, now, sms, cron>>

\* createBooking, lines 129-167: the group-size checks and the write
CreateWrite(w) ==
    /\ workers[w].pc = "cb_write"
    /\ LET c        == workers[w]
           outcome  == groupSizeCheck(c.date, c.slot, c.size)
           booking  == newBooking(c.phone, c.name, c.date, c.slot, c.size)
           bookingId == bookingIdOf(customerIdOf(c.phone), c.date)
       IN IF outcome = "ok"
          THEN /\ bookings' = setDoc(bookings, bookingId, booking)
               /\ workers' = [workers EXCEPT ![w] =
                     [@ EXCEPT !.pc = "done", !.res = "ok", !.id = bookingId,
                               !.ret = booking]]
          ELSE /\ bookings' = bookings
               /\ workers' = [workers EXCEPT ![w] =
                     [@ EXCEPT !.pc = "done", !.res = outcome]]
    /\ UNCHANGED <<customers, scheduleConfig, blockedDates, calls, admin, resp, cal,
                   conversations, now, sms, cron>>

\* rescheduleBooking, lines 285-290: the call is issued and reads the booking
RescheduleStart(w, bookingId, newDate, newSlotTime) ==
    /\ CanStart(w)
    /\ workers' = beginCall(w,
          [IdleWorker EXCEPT
              !.pc = IF bookingId \in DOMAIN bookings THEN "rs_check" ELSE "done",
              !.res = IF bookingId \in DOMAIN bookings THEN "none" ELSE "NotFound",
              !.op = "reschedule", !.id = bookingId, !.date = newDate,
              !.slot = newSlotTime,
              !.freeAtStart = isSlotAvailable(newDate, newSlotTime)])
    /\ calls' = calls + 1
    /\ UNCHANGED <<bookings, customers, scheduleConfig, blockedDates, admin, resp, cal,
                   conversations, now, sms, cron>>

\* a variant that moves the booking before it looks at the availability
RescheduleCheck_writeFirst(w) ==
    /\ workers[w].pc = "rs_check"
    /\ IF isSlotAvailable(workers[w].date, workers[w].slot)
       THEN /\ workers' = [workers EXCEPT ![w] = [@ EXCEPT !.pc = "rs_write"]]
            /\ bookings' = bookings
       ELSE /\ workers' = [workers EXCEPT ![w] =
                  [@ EXCEPT !.pc = "done", !.res = "SlotUnavailable"]]
            /\ bookings' = updateDoc(bookings, workers[w].id,
                  [appointmentDate |-> workers[w].date, slotTime |-> workers[w].slot,
                   dayBeforeReminderSent |-> FALSE])
    /\ UNCHANGED <<customers, scheduleConfig, blockedDates, calls, admin, resp, cal,
                   conversations, now, sms, cron>>

\* rescheduleBooking, lines 293-296: the availability query
RescheduleCheck(w) ==
    /\ workers[w].pc = "rs_check"
    /\ workers' = [workers EXCEPT ![w] =
          IF isSlotAvailable(workers[w].date, workers[w].slot)
          THEN [@ EXCEPT !.pc = "rs_write"]
          ELSE [@ EXCEPT !.pc = "done", !.res = "SlotUnavailable"]]
    /\ UNCHANGED <<bookings, customers, scheduleConfig, blockedDates, calls, admin, resp, cal,
                   conversations, now, sms, cron>>

\* a variant that moves the booking and keeps its reminder flag
RescheduleWrite_keepFlag(w) ==
    /\ workers[w].pc = "rs_write"
    /\ bookings' = updateDoc(bookings, workers[w].id,
          [appointmentDate |-> workers[w].date, slotTime |-> workers[w].slot])
    /\ workers' = [workers EXCEPT ![w] = [@ EXCEPT !.pc = "done", !.res = "ok"]]
    /\ UNCHANGED <<customers, scheduleConfig, blockedDates, calls, admin, resp, cal,
                   conversations, now, sms, cron>>

\* rescheduleBooking, lines 298-306: the update, and the document read back
RescheduleWrite(w) ==
    /\ workers[w].pc = "rs_write"
    /\ bookings' = updateDoc(bookings, workers[w].id,
          [appointmentDate |-> workers[w].date, slotTime |-> workers[w].slot,
           dayBeforeReminderSent |-> FALSE])
    /\ workers' = [workers EXCEPT ![w] = [@ EXCEPT !.pc = "done", !.res = "ok"]]
    /\ UNCHANGED <<customers, scheduleConfig, blockedDates, calls, admin, resp, cal,
                   conversations, now, sms, cron>>

\* cancelBooking: the read and the status update
CancelBooking(w, bookingId) ==
    /\ CanStart(w)
    /\ bookings' = IF bookingId \in DOMAIN bookings
                   THEN updateDoc(bookings, bookingId, [status |-> "cancelled"])
                   ELSE bookings
    /\ workers' = beginCall(w,
          [IdleWorker EXCEPT
              !.pc = "done", !.op = "cancel", !.id = bookingId,
              !.res = IF bookingId \in DOMAIN bookings THEN "ok" ELSE "NotFound"])
    /\ calls' = calls + 1
    /\ UNCHANGED <<customers, scheduleConfig, blockedDates, admin, resp, cal,
                   conversations, now, sms, cron>>

\* updateBooking: the read and the field patch
UpdateBooking(w, bookingId, updates) ==
    /\ CanStart(w)
    /\ bookings' = IF bookingId \in DOMAIN bookings
                   THEN updateDoc(bookings, bookingId, updates)
                   ELSE bookings
    /\ workers' = beginCall(w,
          [IdleWorker EXCEPT
              !.pc = "done", !.op = "update", !.id = bookingId, !.patch = updates,
              !.res = IF bookingId \in DOMAIN bookings THEN "ok" ELSE "NotFound"])
    /\ calls' = calls + 1
    /\ UNCHANGED <<customers, scheduleConfig, blockedDates, admin, resp, cal,
                   conversations, now, sms, cron>>

-----------------------------------------------------------------------------
(* Natural-language dates: date-utils.ts parseDate.  A date text is read as  *)
(* its lower-cased words.                                                    *)

\* dateStr.toLowerCase().trim(), split into words, of the texts customers send
wordsOf(dateStr) ==
    CASE dateStr = "this Wednesday"  -> <<"this", "wednesday">>
      [] dateStr = "next Wednesday"  -> <<"next", "wednesday">>
      [] dateStr = "Motzei Shabbos"  -> <<"motzei", "shabbos">>
      [] dateStr = "Thursday"        -> <<"thursday">>
      [] dateStr = "tomorrow"        -> <<"tomorrow">>
      [] dateStr = "today"           -> <<"today">>
      [] dateStr = "April 12"        -> <<"april", "12">>
      [] dateStr = "January 5th"     -> <<"january", "5th">>
      [] dateStr = "soon"            -> <<"soon">>
      [] dateStr = "Sunday" -> <<"sunday">>
      [] dateStr = "this Sunday" -> <<"this", "sunday">>
      [] dateStr = "next Sunday" -> <<"next", "sunday">>
      [] dateStr = "Monday" -> <<"monday">>
      [] dateStr = "this Monday" -> <<"this", "monday">>
      [] dateStr = "next Monday" -> <<"next", "monday">>
      [] dateStr = "Tuesday" -> <<"tuesday">>
      [] dateStr = "this Tuesday" -> <<"this", "tuesday">>
      [] dateStr = "next Tuesday" -> <<"next", "tuesday">>
      [] dateStr = "Wednesday" -> <<"wednesday">>
      [] dateStr = "this Thursday" -> <<"this", "thursday">>
      [] dateStr = "next Thursday" -> <<"next", "thursday">>
      [] dateStr = "Friday" -> <<"friday">>
      [] dateStr = "this Friday" -> <<"this", "friday">>
      [] dateStr = "next Friday" -> <<"next", "friday">>
      [] dateStr = "Saturday" -> <<"saturday">>
      [] dateStr = "this Saturday" -> <<"this", "saturday">>
      [] dateStr = "next Saturday" -> <<"next", "saturday">>
      [] dateStr = "Shabbos" -> <<"shabbos">>
      [] dateStr = "this Shabbos" -> <<"this", "shabbos">>
      [] dateStr = "this Motzei Shabbos" -> <<"this", "motzei", "shabbos">>
      [] dateStr = "next Shabbos" -> <<"next", "shabbos">>
      [] dateStr = "next Motzei Shabbos" -> <<"next", "motzei", "shabbos">>
      [] OTHER                       -> << >>

\* the characters of a slot time text
charsOf(slotTime) ==
    CASE slotTime = "11:30 AM" -> L1130AM
      [] slotTime = "11:45 AM" -> L1145AM
      [] slotTime = "12:00 PM" -> L1200PM
      [] slotTime = "12:15 PM" -> L1215PM
      [] slotTime = "7:30 PM"  -> L730PM
      [] slotTime = "9:15 PM"  -> L915PM
      [] slotTime = "10:00 AM" -> L1000AM
      [] OTHER                 -> Lempty

dayNames == <<"sunday", "monday", "tuesday", "wednesday", "thursday", "friday",
              "saturday">>

\* dayNames.indexOf(word), from 0, and 6 for a word of 'shabbos'
targetDayOf(word) ==
    IF word = "shabbos" THEN 6
    ELSE IF \E i \in 1..7 : dayNames[i] = word
         THEN (CHOOSE i \in 1..7 : dayNames[i] = word) - 1
    ELSE -1

months == <<"january", "february", "march", "april", "may", "june", "july",
            "august", "september", "october", "november", "december">>

\* months.findIndex(m => word.startsWith(m.slice(0, 3))), for whole month names
monthIndexOf(word) ==
    IF \E i \in 1..12 : months[i] = word
    THEN (CHOOSE i \in 1..12 : months[i] = word) - 1
    ELSE -1

\* parseInt of the one or two leading digits of a day-of-month word
dayOfMonthOf(word) ==
    CASE word = "12"  -> 12
      [] word = "5th" -> 5
      [] OTHER        -> -1

\* Date arithmetic on day numbers: the first day of each month of a common
\* year counted from 1 January, the day number of 1 January, the year of a day
monthOffsets == <<0, 31, 59, 90, 120, 151, 181, 212, 243, 273, 304, 334>>

isLeap(year) == year % 4 = 0

yearStart(year) ==
    CASE year = 2024 -> -62
      [] year = 2025 -> 304
      [] year = 2026 -> 669

getFullYear(day) == IF day < 304 THEN 2024 ELSE IF day < 669 THEN 2025 ELSE 2026

\* new Date(year, monthIndex, day, 12, 0, 0, 0), as a day number
dateOf(year, monthIndex, day) ==
    yearStart(year) + monthOffsets[monthIndex + 1]
        + (IF isLeap(year) /\ monthIndex > 1 THEN 1 ELSE 0) + (day - 1)

NoDate == [ok |-> FALSE, day |-> 0]

\* the word (this|next)? of the weekday match: the one before the weekday
\* name, 'motzei' belonging to the name
qualifierOf(words, i) ==
    IF i > 2 /\ words[i-1] = "motzei" THEN words[i-2]
    ELSE IF i > 1 THEN words[i-1]
    ELSE ""

\* a variant in which the weekday of today is its own next occurrence
weekdayDate_todayCounts(words, i, today) ==
    LET daysToAdd == targetDayOf(words[i]) - getDay(today)
    IN [ok |-> TRUE,
        day |-> today + (IF qualifierOf(words, i) = "next" \/ daysToAdd < 0
                         THEN daysToAdd + 7 ELSE daysToAdd)]

\* lines 22-47: the weekday named at words[i]
weekdayDate(words, i, today) ==
    LET daysToAdd == targetDayOf(words[i]) - getDay(today)
    IN [ok |-> TRUE,
        day |-> today + (IF qualifierOf(words, i) = "next" \/ daysToAdd <= 0
                         THEN daysToAdd + 7 ELSE daysToAdd)]

\* lines 61-88: 'Month Day' of this year, of the next year when it has passed,
\* and of the year before when that lies more than 8 months (of 30 days) ahead
\* unless this puts it in the past
monthDayDate(monthIndex, day, today) ==
    LET year    == getFullYear(today)
        thisYr  == dateOf(year, monthIndex, day)
        result  == IF thisYr < today THEN dateOf(year + 1, monthIndex, day) ELSE thisYr
        resYear == IF thisYr < today THEN year + 1 ELSE year
        back    == dateOf(resYear - 1, monthIndex, day)
    IN [ok |-> TRUE,
        day |-> IF 2 * (result - today) + 1 > 2 * 8 * 30
                THEN (IF back < today THEN result ELSE back)
                ELSE result]

\* lines 61-66: the first word that a day of the month follows
monthWordDate(words, i, today) ==
    IF monthIndexOf(words[i]) = -1 THEN NoDate
    ELSE monthDayDate(monthIndexOf(words[i]), dayOfMonthOf(words[i+1]), today)

isDayWord(word) == targetDayOf(word) # -1

parseDate(dateStr, today) ==
    LET words == wordsOf(dateStr)
    IN IF words = <<"today">> THEN [ok |-> TRUE, day |-> today]
       ELSE IF words = <<"tomorrow">> THEN [ok |-> TRUE, day |-> today + 1]
       ELSE IF \E i \in 1..Len(words) : isDayWord(words[i])
       THEN weekdayDate(words,
                CHOOSE i \in 1..Len(words) :
                    isDayWord(words[i]) /\ \A j \in 1..(i-1) : ~isDayWord(words[j]),
                today)
       ELSE IF \E i \in 1..(Len(words) - 1) : dayOfMonthOf(words[i+1]) # -1
       THEN monthWordDate(words,
                CHOOSE i \in 1..(Len(words) - 1) :
                    /\ dayOfMonthOf(words[i+1]) # -1
                    /\ \A j \in 1..(i-1) : dayOfMonthOf(words[j+1]) = -1,
                today)
       ELSE NoDate

-----------------------------------------------------------------------------
(* Conversation State Machine: message-parser.ts and conversation-state.ts   *)

\* JavaScript values of the fields a message carries
JsUndefined == [type |-> "undefined"]

JsNull == [type |-> "null"]

Str(s) == [type |-> "string", v |-> s]

Num(n) == [type |-> "number", v |-> n]

\* !value
falsy(value) ==
    \/ value.type \in {"undefined", "null"}
    \/ value.type = "string" /\ value.v = ""
    \/ value.type = "number" /\ value.v = 0

REQUIRED_FIELDS == <<"name", "appointmentDate", "groupSize", "weddingDate", "phone">>

\* data[field] of an object that may lack the property
prop(data, field) == IF field \in DOMAIN data THEN data[field] ELSE JsUndefined

getMissingFields(data) ==
    SelectSeq(REQUIRED_FIELDS, LAMBDA field : falsy(prop(data, field)))

\* variant: every supplied property overwrites
kept_all(v) == TRUE

\* the filter of mergeData: v !== undefined && v !== null && v !== ''
kept(v) ==
    /\ v.type # "undefined"
    /\ v.type # "null"
    /\ ~(v.type = "string" /\ v.v = "")

mergeData(existing, newData) ==
    LET entries == { k \in DOMAIN newData : kept(newData[k]) }
    IN [k \in DOMAIN existing \cup entries |->
            IF k \in entries THEN newData[k] ELSE existing[k]]

\* CONVERSATION_TIMEOUT_MS, in hours
CONVERSATION_TIMEOUT == 1

\* the clock when the first message arrives: Monday 2024-03-04, 10:00
StartHour == 34

todayOf(hour) == hour \div 24

\* ConversationState | null, as a sequence of at most one session
NoState == << >>

stateIdOf(phone) == customerIdOf(phone)

\* a variant that lets a session live one hour past its expiry
expired_lateByOne(state) == state.expiresAt + 1 < now

expired(state) == state.expiresAt < now

\* getConversationState: the session of the identity unless it has expired
loadedState(phone) ==
    IF stateIdOf(phone) \notin DOMAIN conversations THEN NoState
    ELSE IF expired(conversations[stateIdOf(phone)]) THEN NoState
    ELSE <<conversations[stateIdOf(phone)]>>

\* getConversationState deletes the session it finds expired
afterLoad(phone) ==
    IF stateIdOf(phone) \in DOMAIN conversations
          /\ expired(conversations[stateIdOf(phone)])
    THEN [k \in DOMAIN conversations \ {stateIdOf(phone)} |-> conversations[k]]
    ELSE conversations

\* collectedData of updateConversationState: the merge, and the phone when none
withPhone(collectedData, phone) ==
    IF falsy(prop(collectedData, "phone"))
    THEN [k \in DOMAIN collectedData \cup {"phone"} |->
              IF k = "phone" THEN Str(phone) ELSE collectedData[k]]
    ELSE collectedData

existingData(existingState) ==
    IF existingState = NoState THEN << >> ELSE existingState[1].collectedData

\* the document updateConversationState writes
newState(phone, extractedData, existingState) ==
    LET collectedData ==
            withPhone(mergeData(existingData(existingState), extractedData), phone)
    IN [ id            |-> stateIdOf(phone),
         phone         |-> phone,
         state         |-> IF Len(getMissingFields(collectedData)) = 0
                           THEN "confirming" ELSE "collecting_info",
         collectedData |-> collectedData,
         missingFields |-> getMissingFields(collectedData),
         lastMessageAt |-> now,
         expiresAt     |-> now + CONVERSATION_TIMEOUT ]

\* clearConversationState
clearedConversations(phone) ==
    [k \in DOMAIN conversations \ {stateIdOf(phone)} |-> conversations[k]]

isBookingComplete(state) == Len(state.missingFields) = 0

\* a webhook request that handles no message; exists is snapshot.exists() of
\* the load, reply is the kind of the last text sent to the customer
IdleSms ==
    [ pc |-> "idle", n |-> 0, phone |-> "", intent |-> "none",
      extractedData |-> << >>, exists |-> FALSE, existingState |-> NoState,
      reply |-> "none" ]

\* the daily check that runs no reminder loop: queue holds the bookings still
\* to be reminded, delivered and failed the bookings whose reminder sendSms
\* has reported as sent and as not sent
IdleCron ==
    [ pc |-> "idle", runs |-> 0, queue |-> << >>, success |-> FALSE,
      delivered |-> {}, failed |-> {} ]

-----------------------------------------------------------------------------
(* Spec: the Booking Engine under two concurrent request handlers *)

NoResp == [surface |-> "none", date |-> 0, slots |-> << >>]

NoCal == [date |-> 0, label |-> << >>, checked |-> FALSE, valid |-> FALSE]

Init ==
    /\ bookings = << >>
    /\ customers = << >>
    /\ scheduleConfig = << >>
    /\ blockedDates = << >>
    /\ workers = [w \in Workers |-> IdleWorker]
    /\ calls = 0
    /\ admin = 0
    /\ resp = NoResp
    /\ cal = NoCal
    /\ conversations = << >>
    /\ now = StartHour
    /\ sms = [w \in Workers |-> IdleSms]
    /\ cron = IdleCron

\* the calls of Spec: two customers, one Wednesday, its first and its last slot
CoreDates == {3}

CoreLabels == {L1130AM, L1215PM}

CoreNames == {"Sarah"}

CoreSizes == {4}

CoreIds == { bookingIdOf(customerIdOf(p), d) : p \in Phones, d \in CoreDates }

\* the status changes the admin dashboard sends to updateBooking
CorePatches == { [status |-> s] : s \in {"confirmed", "completed", "no-show"} }

IssueCreate ==
    /\ calls < MaxCalls
    /\ \E w \in Workers, phone \in Phones, name \in CoreNames, date \in CoreDates,
          slotTime \in CoreLabels, groupSize \in CoreSizes :
          CreateStart(w, phone, name, date, slotTime, groupSize)

IssueReschedule ==
    /\ calls < MaxCalls
    /\ \E w \in Workers, id \in CoreIds, date \in CoreDates, slotTime \in CoreLabels :
          RescheduleStart(w, id, date, slotTime)

IssueCancel ==
    /\ calls < MaxCalls
    /\ \E w \in Workers, id \in CoreIds : CancelBooking(w, id)

IssueUpdate ==
    /\ calls < MaxCalls
    /\ \E w \in Workers, id \in CoreIds, updates \in CorePatches :
          UpdateBooking(w, id, updates)

Next ==
    \/ IssueCreate
    \/ \E w \in Workers : CreateCheck(w)
    \/ \E w \in Workers : CreateWrite(w)
    \/ IssueReschedule
    \/ \E w \in Workers : RescheduleCheck(w)
    \/ \E w \in Workers : RescheduleWrite(w)
    \/ IssueCancel
    \/ IssueUpdate

Spec == Init /\ [][Next]_vars

-----------------------------------------------------------------------------
(* Properties of the Booking Engine under Spec *)

NonCancelled(id) == bookings[id].status # "cancelled"

\* the non-cancelled bookings held for a (date, time label) pair
holders(date, slotTime) ==
    { id \in DOMAIN bookings :
        /\ bookings[id].appointmentDate = date
        /\ bookings[id].slotTime = slotTime
        /\ NonCancelled(id) }

\* C1: at most one booking whose status is not 'cancelled' exists for any
\* (appointment date, slot time label) pair, in every reachable state.
C1_AtMostOnePerSlot ==
    \A i, j \in DOMAIN bookings :
        (/\ i # j
         /\ NonCancelled(i)
         /\ NonCancelled(j)
         /\ bookings[i].appointmentDate = bookings[j].appointmentDate)
        => bookings[i].slotTime # bookings[j].slotTime

\* the present calls of v and w overlapped in time
Concurrent(v, w) == v \in workers[w].conc \/ w \in workers[v].conc

Finished(w, op) == workers[w].op = op /\ workers[w].pc = "done"

SameTarget(v, w) ==
    workers[v].date = workers[w].date /\ workers[v].slot = workers[w].slot

\* C2: of two concurrent createBooking calls for the same free (date, time
\* label), with an admissible party size, exactly one returns a confirmed
\* booking and the other fails with SlotUnavailable, and the store holds at most
\* one non-cancelled booking for the slot.
C2_ConcurrentCreates ==
    \A v, w \in Workers :
        (/\ v # w
         /\ Finished(v, "create") /\ Finished(w, "create")
         /\ SameTarget(v, w) /\ Concurrent(v, w)
         /\ workers[v].freeAtStart /\ workers[w].freeAtStart
         /\ workers[v].size <= 4 /\ workers[w].size <= 4)
        => /\ {workers[v].res, workers[w].res} = {"ok", "SlotUnavailable"}
           /\ Cardinality(holders(workers[v].date, workers[v].slot)) <= 1

\* C3: when a rescheduleBooking to a free (date, time label) runs concurrently
\* with a createBooking for the same pair, or with the rescheduleBooking of
\* another booking to the same pair, at most one of the two succeeds and the
\* one that fails receives SlotUnavailable.
C3_ConcurrentReschedule ==
    \A v, w \in Workers :
        (/\ v # w
         /\ Finished(v, "reschedule") /\ workers[v].res # "NotFound"
         /\ \/ Finished(w, "create") /\ workers[w].size <= 4
            \/ /\ Finished(w, "reschedule") /\ workers[w].res # "NotFound"
               /\ workers[w].id # workers[v].id
         /\ SameTarget(v, w) /\ Concurrent(v, w)
         /\ workers[v].freeAtStart /\ workers[w].freeAtStart)
        => /\ ~(workers[v].res = "ok" /\ workers[w].res = "ok")
           /\ {workers[v].res, workers[w].res} \subseteq {"ok", "SlotUnavailable"}

\* C7: isFree(date, timeLabel) is false whenever the slot is not valid, and
\* otherwise true exactly when no booking with a status other than 'cancelled'
\* exists for that (date, timeLabel).
C7_IsFreeIffNoNonCancelled ==
    \A date \in CoreDates, slotTime \in CoreLabels :
        isSlotAvailable(date, slotTime)
            <=> (isValidAppointmentTime(date, slotTime) /\ holders(date, slotTime) = {})

-----------------------------------------------------------------------------
(* SpecParty: createBooking calls issued one after the other, over both      *)
(* appointment days and every group size class                               *)

PartyDates == {3, 6}

PartyLabels == {L1130AM, L1215PM, L915PM}

PartySizes == {4, 5, 6, 7}

IssueParty ==
    /\ calls < MaxPartyCalls
    /\ \E phone \in Phones, name \in CoreNames, date \in PartyDates,
          slotTime \in PartyLabels, groupSize \in PartySizes :
          CreateStart("w1", phone, name, date, slotTime, groupSize)

NextParty ==
    \/ IssueParty
    \/ CreateCheck("w1")
    \/ CreateWrite("w1")

SpecParty == Init /\ [][NextParty]_vars

\* the last entry of the weekday's full slot list
fullListLast(date) == possibleSlots(date)[Len(possibleSlots(date))]

\* the step that ends worker w's createBooking call with an error
CreateFails(w) ==
    /\ workers[w].pc \in {"cb_check", "cb_write"}
    /\ workers'[w].pc = "done"
    /\ workers'[w].res # "ok"

C4_Outcomes ==
    \A w \in Workers :
        LET c == workers[w]
        IN Finished(w, "create") =>
             /\ (c.size \in {5, 6} /\ c.res = "ok") => c.slot = fullListLast(c.date)
             /\ (c.size \in {5, 6} /\ c.freeAtStart /\ c.slot # fullListLast(c.date))
                    => c.res = "PartySizeRequiresLastSlot"
             /\ (c.size <= 4 /\ c.freeAtStart) => c.res = "ok"

\* C4: createBooking with party size 5 or 6 is accepted only on the last entry
\* of the weekday's full slot list; on any other free valid slot it fails
\* with PartySizeRequiresLastSlot and persists no booking; party size 4 or
\* less is accepted on every free valid slot.
C4_PartyGate ==
    /\ []C4_Outcomes
    /\ [][\A w \in Workers :
            (CreateFails(w) /\ workers'[w].res = "PartySizeRequiresLastSlot")
                => bookings' = bookings]_vars

C4_Witness ==
    /\ Finished("w1", "create")
    /\ workers["w1"].size = 5
    /\ workers["w1"].freeAtStart
    /\ workers["w1"].res = "PartySizeRequiresLastSlot"
    /\ \E id \in DOMAIN bookings :
          bookings[id].groupSize = 6 /\ bookings[id].slotTime = L915PM

\* C5 as claimed: createBooking with party size 7 or more fails with
\* PartySizeExceeded whatever the slot (free, occupied, last, not valid).
C5_ExceededRegardlessOfSlot ==
    \A w \in Workers :
        (Finished(w, "create") /\ workers[w].size >= 7)
            => workers[w].res = "PartySizeExceeded"

C5_Outcomes ==
    \A w \in Workers :
        LET c == workers[w]
        IN (Finished(w, "create") /\ c.size >= 7) =>
             /\ c.freeAtStart => c.res = "PartySizeExceeded"
             /\ ~c.freeAtStart => c.res = "SlotUnavailable"

\* C5 as amended: createBooking with party size 7 or more never persists a
\* booking; it fails with PartySizeExceeded when the slot is free and valid
\* (the last slot or not) and with SlotUnavailable when the slot is occupied
\* or not valid, the availability check coming first.
C5_ExceededOnFreeSlot ==
    /\ []C5_Outcomes
    /\ [][\A w \in Workers :
            (workers'[w].pc = "done" /\ workers[w].pc # "done"
                /\ workers'[w].op = "create" /\ workers'[w].size >= 7)
                => (workers'[w].res # "ok" /\ bookings' = bookings)]_vars

C5_Witness ==
    /\ Finished("w1", "create")
    /\ workers["w1"].size = 7
    /\ workers["w1"].slot = fullListLast(workers["w1"].date)
    /\ workers["w1"].freeAtStart
    /\ workers["w1"].res = "PartySizeExceeded"
    /\ bookings # << >>

\* C6: every booking returned and persisted by a successful createBooking has
\* status 'confirmed', all tracking and reminder flags false, and slotDuration
\* 30 when the party size exceeds 4 and 15 otherwise.
C6_NewBookingFields ==
    \A w \in Workers :
        LET c == workers[w]
        IN (Finished(w, "create") /\ c.res = "ok") =>
             /\ c.id \in DOMAIN bookings
             /\ bookings[c.id] = c.ret
             /\ c.ret.status = "confirmed"
             /\ c.ret.groupSize = c.size
             /\ ~c.ret.gownPickedUp /\ ~c.ret.gownReturned /\ ~c.ret.donationPaid
             /\ ~c.ret.confirmationSent /\ ~c.ret.dayBeforeReminderSent
             /\ ~c.ret.returnReminderSent
             /\ c.ret.slotDuration = (IF c.size > 4 THEN 30 ELSE 15)

C6_Witness ==
    /\ Finished("w1", "create")
    /\ workers["w1"].res = "ok"
    /\ workers["w1"].size = 5
    /\ workers["w1"].ret.slotDuration = 30
    /\ \E id \in DOMAIN bookings : bookings[id].slotDuration = 15

-----------------------------------------------------------------------------
(* SpecCal: Calendar Rules as a pure function of a date and a time label      *)

CalDates == 0..6

InitCal ==
    /\ bookings = << >>
    /\ customers = << >>
    /\ scheduleConfig = << >>
    /\ blockedDates = << >>
    /\ workers = [w \in Workers |-> IdleWorker]
    /\ calls = 0
    /\ admin = 0
    /\ resp = NoResp
    /\ conversations = << >>
    /\ now = StartHour
    /\ sms = [w \in Workers |-> IdleSms]
    /\ cron = IdleCron
    /\ \E date \in CalDates, label \in AllLabels :
          cal = [date |-> date, label |-> label, checked |-> FALSE, valid |-> FALSE]

\* a caller evaluates isValidAppointmentTime(date, label)
Validate ==
    /\ ~cal.checked
    /\ cal' = [cal EXCEPT !.checked = TRUE,
                          !.valid = isValidAppointmentTime(cal.date, cal.label)]
    /\ UNCHANGED <<bookings, customers, scheduleConfig, blockedDates, workers,
                   calls, admin, resp, conversations, now, sms, cron>>

SpecCal == InitCal /\ [][Validate]_vars

\* the minutes after midnight of the weekday's fixed window of slots
windowMinutes(dayOfWeek) ==
    IF dayOfWeek = 3 THEN {690, 705, 720, 735}
    ELSE IF dayOfWeek = 6 THEN {1170, 1185, 1200, 1215, 1230, 1245, 1260, 1275}
    ELSE {}

inWindow(date, label) ==
    /\ parseTime(label) # NoTime
    /\ 60 * parseTime(label).hours + parseTime(label).minutes
           \in windowMinutes(getDay(date))

\* C8: isValidSlot(d, t) is true if and only if t appears in slotsFor(d) and t
\* lies within the weekday's fixed window; so it is false for a label that is
\* not in the weekday's slot list even when it parses to a time in the window.
C8_ValidIffListedAndInWindow ==
    cal.checked
        => (cal.valid <=> (/\ cal.label \in Range(possibleSlots(cal.date))
                           /\ inWindow(cal.date, cal.label)))

-----------------------------------------------------------------------------
(* Schedule Overrides: schedule-config.ts, and the surfaces that report      *)
(* availability                                                              *)

DEFAULT_CONFIG ==
    [ wednesday |-> [enabled |-> TRUE, slots |-> APPOINTMENT_SLOTS_wednesday],
      saturday  |-> [enabled |-> TRUE, slots |-> APPOINTMENT_SLOTS_motzeiShabbos] ]

getScheduleConfig ==
    IF "default" \in DOMAIN scheduleConfig
    THEN scheduleConfig["default"]
    ELSE DEFAULT_CONFIG

\* the document updateScheduleConfig writes: { ...existing-or-default, ...updates }
mergedConfig(updates) ==
    [day \in {"wednesday", "saturday"} |->
        IF day \in DOMAIN updates THEN updates[day] ELSE getScheduleConfig[day]]

\* POST /api/admin/schedule, action 'updateConfig'
UpdateScheduleConfig(updates) ==
    /\ scheduleConfig' = setDoc(scheduleConfig, "default", mergedConfig(updates))
    /\ admin' = admin + 1
    /\ UNCHANGED <<bookings, customers, blockedDates, workers, calls, resp, cal,
                   conversations, now, sms, cron>>

\* the document blockDate builds
\* a variant that merges into the override already stored: a request without
\* a reason keeps the stored one
newBlockedDate_merge(date, reason, blockedSlots) ==
    [ id |-> dateStrOf(date), date |-> date, dateStr |-> dateStrOf(date),
      reason |-> IF reason = Undefined /\ dateStrOf(date) \in DOMAIN blockedDates
                 THEN blockedDates[dateStrOf(date)].reason ELSE reason,
      blockedSlots |-> IF blockedSlots = Undefined THEN << >> ELSE blockedSlots,
      createdAt |-> now ]

newBlockedDate(date, reason, blockedSlots) ==
    [ id |-> dateStrOf(date), date |-> date, dateStr |-> dateStrOf(date),
      reason |-> reason,
      blockedSlots |-> IF blockedSlots = Undefined THEN << >> ELSE blockedSlots,
      createdAt |-> now ]

\* blockDate: the collection after .doc(dateStr).set(blockedDate)
blockDate(date, reason, blockedSlots) ==
    setDoc(blockedDates, dateStrOf(date), newBlockedDate(date, reason, blockedSlots))

\* unblockDate: the collection after .doc(dateStr).delete()
unblockDate(dateStr) ==
    [k \in DOMAIN blockedDates \ {dateStr} |-> blockedDates[k]]

\* POST /api/admin/schedule, action 'blockDate'
BlockDate(date, reason, blockedSlots) ==
    /\ blockedDates' = blockDate(date, reason, blockedSlots)
    /\ admin' = admin + 1
    /\ UNCHANGED <<bookings, customers, scheduleConfig, workers, calls, resp, cal,
                   conversations, now, sms, cron>>

\* POST /api/admin/schedule, action 'unblockDate'
UnblockDate(dateStr) ==
    /\ blockedDates' = unblockDate(dateStr)
    /\ admin' = admin + 1
    /\ UNCHANGED <<bookings, customers, scheduleConfig, workers, calls, resp, cal,
                   conversations, now, sms, cron>>

\* the weekday's entry of the schedule, for the two appointment weekdays
dayConfigOf(date) ==
    IF getDay(date) = 3 THEN getScheduleConfig.wednesday
    ELSE getScheduleConfig.saturday

hasDayConfig(date) == getDay(date) = 3 \/ getDay(date) = 6

\* getConfiguredSlotsForDate from the blocked-date lookup on
slotsUnderBlock(date, daySlots) ==
    IF dateStrOf(date) \in DOMAIN blockedDates
    THEN IF Len(blockedDates[dateStrOf(date)].blockedSlots) = 0
         THEN [ slots |-> << >>, blocked |-> TRUE,
                reason |-> blockedDates[dateStrOf(date)].reason ]
         ELSE [ slots |-> SelectSeq(daySlots, LAMBDA slot :
                    slot \notin Range(blockedDates[dateStrOf(date)].blockedSlots)),
                blocked |-> FALSE ]
    ELSE [ slots |-> daySlots, blocked |-> FALSE ]

\* variant: the blocked-date lookup ahead of the weekday's enabled flag
getConfiguredSlotsForDate_blockFirst(date) ==
    IF ~hasDayConfig(date) THEN [ slots |-> << >>, blocked |-> FALSE ]
    ELSE IF dateStrOf(date) \in DOMAIN blockedDates
    THEN slotsUnderBlock(date, dayConfigOf(date).slots)
    ELSE IF ~dayConfigOf(date).enabled THEN [ slots |-> << >>, blocked |-> FALSE ]
    ELSE [ slots |-> dayConfigOf(date).slots, blocked |-> FALSE ]

getConfiguredSlotsForDate(date) ==
    IF ~hasDayConfig(date) THEN [ slots |-> << >>, blocked |-> FALSE ]
    ELSE IF ~dayConfigOf(date).enabled THEN [ slots |-> << >>, blocked |-> FALSE ]
    ELSE slotsUnderBlock(date, dayConfigOf(date).slots)

\* the slots of the body GET /api/admin/slots answers with
adminSlots(date) ==
    IF ~hasDayConfig(date) THEN << >>
    ELSE IF ~dayConfigOf(date).enabled THEN << >>
    ELSE IF getConfiguredSlotsForDate(date).blocked THEN << >>
    ELSE SelectSeq(getConfiguredSlotsForDate(date).slots,
                   LAMBDA slot : slot \in Range(getAvailableSlotsForDate(date)))

\* GET /api/admin/slots?date=
AdminSlotsGET(date) ==
    /\ resp' = [surface |-> "admin", date |-> date, slots |-> adminSlots(date)]
    /\ UNCHANGED <<bookings, customers, scheduleConfig, blockedDates, workers,
                   calls, admin, cal, conversations, now, sms, cron>>

\* the slots the voice tool checkAvailability reports
voiceSlots(date) ==
    IF getDay(date) # 3 /\ getDay(date) # 6 THEN << >>
    ELSE getAvailableSlotsForDate(date)

\* handleToolCall, case 'checkAvailability'
CheckAvailability(date) ==
    /\ resp' = [surface |-> "voice", date |-> date, slots |-> voiceSlots(date)]
    /\ UNCHANGED <<bookings, customers, scheduleConfig, blockedDates, workers,
                   calls, admin, cal, conversations, now, sms, cron>>

\* processBooking of the SMS webhook for a session without a slot time: the
\* first available slot is the default, and createBooking is entered with it
ProcessBooking(w, phone, name, date, groupSize) ==
    /\ CanStart(w)
    /\ resp' = [surface |-> "sms", date |-> date,
                slots |-> getAvailableSlotsForDate(date)]
    /\ IF Len(getAvailableSlotsForDate(date)) = 0
       THEN UNCHANGED <<customers, workers, calls>>
       ELSE createBookingEnter(w, phone, name, date,
                               getAvailableSlotsForDate(date)[1], groupSize)
    /\ UNCHANGED <<bookings, scheduleConfig, blockedDates, admin, cal,
                   conversations, now, sms, cron>>

-----------------------------------------------------------------------------
(* SpecSched: the administrator changes the schedule and blocks dates while  *)
(* customers ask for availability and book by SMS                            *)

SchedDates == {3, 4, 6}

BlockableDates == {3, 6}

\* the bodies of the 'updateConfig' requests
SchedUpdates ==
    { [ wednesday |-> [enabled |-> we, slots |-> ws],
        saturday  |-> [enabled |-> se, slots |-> APPOINTMENT_SLOTS_motzeiShabbos] ] :
        we \in BOOLEAN, se \in BOOLEAN,
        ws \in {APPOINTMENT_SLOTS_wednesday, <<L1145AM, L1200PM>>} }

SchedReasons == {"Yom Tov", Undefined}

SchedBlockedSlots == {Undefined, <<L1130AM>>, <<L730PM, L915PM>>}

AdminUpdateConfig ==
    /\ admin < MaxAdmin
    /\ \E updates \in SchedUpdates : UpdateScheduleConfig(updates)

AdminBlockDate ==
    /\ admin < MaxAdmin
    /\ \E date \in BlockableDates, reason \in SchedReasons,
          blockedSlots \in SchedBlockedSlots : BlockDate(date, reason, blockedSlots)

AdminUnblockDate ==
    /\ admin < MaxAdmin
    /\ \E date \in BlockableDates : UnblockDate(dateStrOf(date))

SmsBooking ==
    /\ calls < MaxSchedCalls
    /\ \E date \in SchedDates : ProcessBooking("w1", "+15551110000", "Sarah", date, 4)

NextSched ==
    \/ AdminUpdateConfig
    \/ AdminBlockDate
    \/ AdminUnblockDate
    \/ \E date \in SchedDates : AdminSlotsGET(date)
    \/ \E date \in SchedDates : CheckAvailability(date)
    \/ SmsBooking
    \/ CreateCheck("w1")
    \/ CreateWrite("w1")

SpecSched == Init /\ [][NextSched]_vars

\* the DateOverride of a date, when one exists
hasOverride(date) == dateStrOf(date) \in DOMAIN blockedDates

overrideOf(date) == blockedDates[dateStrOf(date)]

\* the weekday has a DaySchedule and it is enabled
scheduled(date) ==
    \/ getDay(date) = 3 /\ getScheduleConfig.wednesday.enabled
    \/ getDay(date) = 6 /\ getScheduleConfig.saturday.enabled

C9_Precedence(date) ==
    LET r == getConfiguredSlotsForDate(date)
    IN /\ ~scheduled(date) => r = [slots |-> << >>, blocked |-> FALSE]
       /\ (scheduled(date) /\ hasOverride(date)
               /\ overrideOf(date).blockedSlots = << >>)
            => r = [slots |-> << >>, blocked |-> TRUE, reason |-> overrideOf(date).reason]
       /\ (scheduled(date) /\ hasOverride(date)
               /\ overrideOf(date).blockedSlots # << >>)
            => /\ r.blocked = FALSE
               /\ DOMAIN r = {"slots", "blocked"}
               /\ r.slots = SelectSeq(dayConfigOf(date).slots, LAMBDA s :
                                \A i \in DOMAIN overrideOf(date).blockedSlots :
                                    overrideOf(date).blockedSlots[i] # s)
       /\ (scheduled(date) /\ ~hasOverride(date))
            => r = [slots |-> dayConfigOf(date).slots, blocked |-> FALSE]

\* C9: effectiveSlots(date) is ([], not blocked) when the weekday has no
\* schedule or its DaySchedule is disabled, even if a DateOverride exists;
\* else ([], blocked, reason) under a DateOverride with no blockedSlots; else
\* the DaySchedule's slots without the blockedSlots, in their order, not
\* blocked; else the DaySchedule's slots, not blocked.
C9_EffectiveSlotsPrecedence == \A date \in SchedDates : C9_Precedence(date)

C9_Witness ==
    /\ ~scheduled(3) /\ hasOverride(3) /\ overrideOf(3).blockedSlots = << >>
    /\ getConfiguredSlotsForDate(3) = [slots |-> << >>, blocked |-> FALSE]
    /\ scheduled(6) /\ ~hasOverride(6)

\* freeSlotsFor(date): the effective slots no non-cancelled booking holds
freeSlotsFor(date) ==
    SelectSeq(getConfiguredSlotsForDate(date).slots,
              LAMBDA s : holders(date, s) = {})

\* C10: the availability list a surface (SMS default-slot selection, the voice
\* checkAvailability tool, the admin slots endpoint) reports for a date
\* equals the slots of effectiveSlots(date) that no non-cancelled booking
\* occupies, in order.
C10_SurfacedAvailability ==
    [][resp' # resp => resp'.slots = freeSlotsFor(resp'.date)]_vars

\* the step in which handler w commits a booking by createBooking or by
\* rescheduleBooking
Commits(w) ==
    /\ workers[w].pc \in {"cb_write", "rs_write"}
    /\ workers'[w].pc = "done"
    /\ workers'[w].res = "ok"

\* C11: createBooking and rescheduleBooking never commit a booking to a
\* (date, time label) that is absent from effectiveSlots(date).slots at commit
\* time (a wholly blocked date, a blocked slot, a disabled weekday, a label
\* removed from the weekday's configured list).
C11_CommitWithinEffectiveSlots ==
    [][\A w \in Workers :
          Commits(w) => workers[w].slot \in
                           Range(getConfiguredSlotsForDate(workers[w].date).slots)]_vars

-----------------------------------------------------------------------------
(* SMS webhook: app/api/sms/webhook/route.ts                                 *)

\* POST, lines 88-96: the request loads the session of the sender and has the
\* message parsed; parsed is the answer of the extraction oracle
SmsLoad(h, phone, intent, extractedData) ==
    /\ sms[h].pc \in {"idle", "done"}
    /\ CanStart(h)
    /\ conversations' = afterLoad(phone)
    /\ sms' = [sms EXCEPT ![h] =
          [ pc |-> "parsed", n |-> sms[h].n + 1, phone |-> phone, intent |-> intent,
            extractedData |-> extractedData,
            exists |-> stateIdOf(phone) \in DOMAIN conversations,
            existingState |-> loadedState(phone),
            reply |-> sms[h].reply ]]
    /\ UNCHANGED <<bookings, customers, scheduleConfig, blockedDates, workers, calls,
                   admin, resp, cal, now, cron>>

\* variant: a question falls through to the booking branch
conversationsAfter_fallThrough(intent, phone, extractedData, existingState) ==
    IF intent = "greeting" THEN conversations
    ELSE IF intent = "cancellation" THEN clearedConversations(phone)
    ELSE IF intent = "confirmation" THEN conversations
    ELSE setDoc(conversations, stateIdOf(phone),
                newState(phone, extractedData, existingState))

\* variant: a cancellation deletes only a session that awaits confirmation
conversationsAfter_keepCollecting(intent, phone, extractedData, existingState) ==
    IF intent \in {"greeting", "question"} THEN conversations
    ELSE IF intent = "cancellation"
         THEN (IF existingState # NoState /\ ~isBookingComplete(existingState[1])
               THEN conversations ELSE clearedConversations(phone))
    ELSE IF intent = "confirmation" THEN conversations
    ELSE setDoc(conversations, stateIdOf(phone),
                newState(phone, extractedData, existingState))

\* variant: a confirmation that finds nothing to confirm deletes the session
conversationsAfter_clearOnConfirm(intent, phone, extractedData, existingState) ==
    IF intent \in {"greeting", "question"} THEN conversations
    ELSE IF intent \in {"cancellation", "confirmation"} THEN clearedConversations(phone)
    ELSE setDoc(conversations, stateIdOf(phone),
                newState(phone, extractedData, existingState))

\* POST, lines 102-148: the conversations collection after the switch on the
\* intent, for a message that books nothing
conversationsAfter(intent, phone, extractedData, existingState) ==
    IF intent \in {"greeting", "question"} THEN conversations
    ELSE IF intent = "cancellation" THEN clearedConversations(phone)
    ELSE IF intent = "confirmation" THEN conversations
    ELSE setDoc(conversations, stateIdOf(phone),
                newState(phone, extractedData, existingState))

\* getNextAvailableDates: the first count Wednesdays and Saturdays after
\* referenceDate
RECURSIVE getNextAvailableDates(_, _)
getNextAvailableDates(referenceDate, count) ==
    IF count = 0 THEN << >>
    ELSE IF getDay(referenceDate + 1) \in {3, 6}
         THEN <<referenceDate + 1>> \o getNextAvailableDates(referenceDate + 1, count - 1)
         ELSE getNextAvailableDates(referenceDate + 1, count)

\* the dates processBooking puts in the text of getSlotUnavailableTemplate
alternativesOf(hour) == getNextAvailableDates(todayOf(hour), 3)

\* the kinds of text that list alternatives, and that name the phone number
\* to call
listsAlternatives(reply) == reply = "unavailable"

namesFallback(reply) == reply = "error"

\* the kind of text the switch answers with, for a message that books nothing
replyAfter(intent, phone, extractedData, existingState) ==
    IF intent = "greeting" THEN "greeting"
    ELSE IF intent = "question" THEN "faq"
    ELSE IF intent = "cancellation" THEN "cancelled"
    ELSE IF intent = "confirmation" THEN "nothing-to-confirm"
    ELSE IF isBookingComplete(newState(phone, extractedData, existingState))
         THEN "summary" ELSE "missing"

\* the request ends with a reply
smsDone(h, reply) == [sms EXCEPT ![h] = [@ EXCEPT !.pc = "done", !.reply = reply]]

\* processBooking, lines 193-204: the collected slot time, or the first
\* available slot of the date
slotTimeOf(data, date) ==
    IF falsy(prop(data, "slotTime")) THEN getAvailableSlotsForDate(date)[1]
    ELSE charsOf(data.slotTime.v)

\* processBooking, lines 183-214, up to the entry of createBooking
processBookingEnter(h, data, appointmentDate, weddingDate) ==
    IF ~appointmentDate.ok \/ ~weddingDate.ok
    THEN /\ sms' = smsDone(h, "dates")
         /\ UNCHANGED <<customers, workers, calls>>
    ELSE IF falsy(prop(data, "slotTime"))
               /\ Len(getAvailableSlotsForDate(appointmentDate.day)) = 0
    THEN /\ sms' = smsDone(h, "unavailable")
         /\ UNCHANGED <<customers, workers, calls>>
    ELSE /\ createBookingEnter(h, sms[h].phone, data.name.v, appointmentDate.day,
                               slotTimeOf(data, appointmentDate.day), data.groupSize.v)
         /\ sms' = [sms EXCEPT ![h] = [@ EXCEPT !.pc = "booking"]]

\* the confirmation finds a complete session
confirms(m) ==
    /\ m.intent = "confirmation"
    /\ m.existingState # NoState
    /\ isBookingComplete(m.existingState[1])

\* POST, lines 102-149: the switch on the intent
SmsHandle(h) ==
    /\ sms[h].pc = "parsed"
    /\ IF confirms(sms[h])
       THEN /\ processBookingEnter(h, sms[h].existingState[1].collectedData,
                   parseDate(sms[h].existingState[1].collectedData.appointmentDate.v,
                             todayOf(now)),
                   parseDate(sms[h].existingState[1].collectedData.weddingDate.v,
                             todayOf(now)))
            /\ UNCHANGED conversations
       ELSE /\ conversations' = conversationsAfter(sms[h].intent, sms[h].phone,
                                     sms[h].extractedData, sms[h].existingState)
            /\ sms' = smsDone(h, replyAfter(sms[h].intent, sms[h].phone,
                                     sms[h].extractedData, sms[h].existingState))
            /\ UNCHANGED <<customers, workers, calls>>
    /\ UNCHANGED <<bookings, scheduleConfig, blockedDates, admin, resp, cal, now, cron>>

\* variant: the session is deleted whatever createBooking answered
conversationsAfterBooking_always(phone, res) == clearedConversations(phone)

\* variant: the session is kept after the booking
conversationsAfterBooking_never(phone, res) == conversations

\* processBooking, lines 216-217 and 227-237: the session is deleted after
\* createBooking returned, and kept when it threw
conversationsAfterBooking(phone, res) ==
    IF res = "ok" THEN clearedConversations(phone) ELSE conversations

\* processBooking, lines 219-237: the reply; 'Slot is not available' is the
\* one error message that includes 'not available'
bookingReply(res) ==
    IF res = "ok" THEN "confirmation"
    ELSE IF res = "SlotUnavailable" THEN "unavailable"
    ELSE "error"

\* processBooking, lines 216-237: createBooking has returned or thrown
SmsBooked(h) ==
    /\ sms[h].pc = "booking"
    /\ workers[h].pc = "done"
    /\ conversations' = conversationsAfterBooking(sms[h].phone, workers[h].res)
    /\ sms' = smsDone(h, bookingReply(workers[h].res))
    /\ UNCHANGED <<bookings, customers, scheduleConfig, blockedDates, workers, calls,
                   admin, resp, cal, now, cron>>

\* time passes
Tick(hours) ==
    /\ now' = now + hours
    /\ UNCHANGED <<bookings, customers, scheduleConfig, blockedDates, workers, calls,
                   admin, resp, cal, conversations, sms, cron>>

-----------------------------------------------------------------------------
(* SpecSms: one customer texts, one message after the other, while the clock *)
(* advances                                                                  *)

SmsPhone == "+15551110000"

\* what the extraction oracle answers for the messages of the customer
SmsBookingData ==
    { [ name |-> Str("Sarah"), appointmentDate |-> Str("this Wednesday"),
        groupSize |-> Num(2), weddingDate |-> Str("April 12"),
        phone |-> Str("555-123-4567") ],
      [ name |-> Str(""), groupSize |-> JsNull, slotTime |-> Str("12:15 PM"),
        weddingDate |-> JsUndefined ],
      [ name |-> Str("Leah"), slotTime |-> Str("10:00 AM") ],
      [ appointmentDate |-> Str("soon"), groupSize |-> Num(5) ] }

SmsMessages ==
    { [intent |-> i, extractedData |-> << >>] :
        i \in {"greeting", "question", "cancellation", "confirmation", "unknown"} }
    \cup { [intent |-> "booking", extractedData |-> d] : d \in SmsBookingData }

\* the bookings of other customers when the conversation begins: none, the
\* last Wednesday slot, every Wednesday slot
takenBy(phone, slotTime) == newBooking(phone, "Leah", 3, slotTime, 2)

OtherBookings ==
    { << >>,
      [id \in {bookingIdOf("15552220000", 3)} |-> takenBy("+15552220000", L1215PM)],
      [id \in {bookingIdOf(customerIdOf(p), 3) :
                   p \in {"+15552220000", "+15553330000", "+15554440000",
                           "+15555550000"}} |->
          CASE id[1] = "15552220000" -> takenBy("+15552220000", L1130AM)
            [] id[1] = "15553330000" -> takenBy("+15553330000", L1145AM)
            [] id[1] = "15554440000" -> takenBy("+15554440000", L1200PM)
            [] id[1] = "15555550000" -> takenBy("+15555550000", L1215PM)] }

InitSms ==
    /\ bookings \in OtherBookings
    /\ customers = << >>
    /\ scheduleConfig = << >>
    /\ blockedDates = << >>
    /\ workers = [w \in Workers |-> IdleWorker]
    /\ calls = 0
    /\ admin = 0
    /\ resp = NoResp
    /\ cal = NoCal
    /\ conversations = << >>
    /\ now = StartHour
    /\ sms = [w \in Workers |-> IdleSms]
    /\ cron = IdleCron

SmsReceive ==
    /\ sms["w1"].n < MaxMsgs
    /\ \E m \in SmsMessages : SmsLoad("w1", SmsPhone, m.intent, m.extractedData)

ClockTick ==
    /\ sms["w1"].pc \in {"idle", "done"}
    /\ \E hours \in 1..2 :
          /\ now + hours <= StartHour + MaxHours
          /\ Tick(hours)

NextSms ==
    \/ SmsReceive
    \/ SmsHandle("w1")
    \/ CreateCheck("w1")
    \/ CreateWrite("w1")
    \/ SmsBooked("w1")
    \/ ClockTick

SpecSms == InitSms /\ [][NextSms]_vars

-----------------------------------------------------------------------------
(* Properties of the conversation under SpecSms *)

\* the steps of request h: the message is loaded, the switch ends the request
Loads(h) == sms[h].pc \in {"idle", "done"} /\ sms'[h].pc = "parsed"

Switches(h) == sms[h].pc = "parsed" /\ sms'[h].pc = "done"

Ends(h) == sms[h].pc # "done" /\ sms'[h].pc = "done"

hasSession(phone) == stateIdOf(phone) \in DOMAIN conversations

sessionOf(phone) == conversations[stateIdOf(phone)]

\* a value a message supplies that is neither absent, null nor empty
nonEmpty(v) ==
    /\ v.type \notin {"undefined", "null"}
    /\ v.type = "string" => v.v # ""

\* two values of the same type and content
same(a, b) == a.type = b.type /\ (a.type \in {"string", "number"} => a.v = b.v)

supplies(extractedData, f) == f \in DOMAIN extractedData /\ nonEmpty(extractedData[f])

\* data holds value v under field f
holds(data, f, v) == f \in DOMAIN data /\ same(data[f], v)

\* the collected fields of the session built from one message alone
fromMessageAlone(collectedData, extractedData, phone) ==
    \A f \in DOMAIN collectedData :
        \/ supplies(extractedData, f) /\ same(collectedData[f], extractedData[f])
        \/ f = "phone" /\ same(collectedData[f], Str(phone))

C12_Step(h) ==
    (Switches(h) /\ sms[h].intent \in {"booking", "unknown"} /\ hasSession(sms[h].phone))
    => \A f \in DOMAIN sessionOf(sms[h].phone).collectedData :
          LET old == sessionOf(sms[h].phone).collectedData[f]
              new == conversations'[stateIdOf(sms[h].phone)].collectedData
          IN nonEmpty(old) =>
                /\ f \in DOMAIN new
                /\ nonEmpty(new[f])
                /\ ~supplies(sms[h].extractedData, f) => same(new[f], old)
                /\ ~same(new[f], old) => same(new[f], sms[h].extractedData[f])

\* C12: within the idle window a populated collected field is never cleared
\* or emptied by a later booking-intent message that omits it or supplies an
\* empty or null value; it changes only to a new non-empty value the message
\* supplies for that field.
C12_MergeMonotone == [][\A h \in Workers : C12_Step(h)]_vars

C12_Witness ==
    /\ sms["w1"].pc = "done"
    /\ sms["w1"].intent = "booking"
    /\ sms["w1"].existingState # NoState
    /\ holds(sms["w1"].existingState[1].collectedData, "name", Str("Sarah"))
    /\ holds(sms["w1"].extractedData, "name", Str(""))
    /\ holds(sms["w1"].extractedData, "groupSize", JsNull)
    /\ hasSession(SmsPhone)
    /\ holds(sessionOf(SmsPhone).collectedData, "name", Str("Sarah"))
    /\ holds(sessionOf(SmsPhone).collectedData, "groupSize", Num(2))
    /\ holds(sessionOf(SmsPhone).collectedData, "slotTime", Str("12:15 PM"))

\* the stored session of the sender has expired
stale(phone) == hasSession(phone) /\ sessionOf(phone).expiresAt < now

\* the message alone fills every required field (the sender's phone is
\* added by the update itself)
completes(extractedData) ==
    \A i \in 1..Len(REQUIRED_FIELDS) :
        \/ REQUIRED_FIELDS[i] = "phone"
        \/ /\ supplies(extractedData, REQUIRED_FIELDS[i])
           /\ ~falsy(extractedData[REQUIRED_FIELDS[i]])

\* an expired session is not loaded
C13_Load(h) ==
    (Loads(h) /\ stale(sms'[h].phone)) => sms'[h].existingState = NoState

\* the booking message handled after its load has found an expired session
C13_Fresh(h) ==
    Switches(h) /\ sms[h].exists /\ sms[h].existingState = NoState
                /\ sms[h].intent \in {"booking", "unknown"}

C13_FreshFields(h) ==
    C13_Fresh(h) =>
        fromMessageAlone(conversations'[stateIdOf(sms[h].phone)].collectedData,
                         sms[h].extractedData, sms[h].phone)

\* a confirmation handled after its load has found an expired session books
\* nothing
C13_NoBooking(h) ==
    (sms[h].pc = "parsed" /\ sms[h].exists /\ sms[h].existingState = NoState
        /\ sms[h].intent = "confirmation")
    => /\ sms'[h].pc = "done"
       /\ bookings' = bookings
       /\ workers' = workers

\* C13 as stated: a session whose expiresAt is earlier than the current time
\* is treated as no session: loading it yields none, a following
\* booking-intent message starts a fresh collecting_info session holding only
\* the fields of that message, and a following confirmation creates no
\* booking.
C13_FreshIsCollecting ==
    [][\A h \in Workers :
          /\ C13_Load(h)
          /\ C13_FreshFields(h)
          /\ C13_Fresh(h) =>
                conversations'[stateIdOf(sms[h].phone)].state = "collecting_info"
          /\ C13_NoBooking(h)]_vars

\* C13 amended: a session whose expiresAt is earlier than the current time is
\* treated as no session: loading it yields none, a following booking-intent
\* message starts a fresh session holding only the fields of that message,
\* in the collecting_info state unless that message alone fills every
\* required field (then confirming), and a following confirmation creates
\* no booking.
C13_ExpiredIsAbsent ==
    [][\A h \in Workers :
          /\ C13_Load(h)
          /\ C13_FreshFields(h)
          /\ C13_Fresh(h) =>
                conversations'[stateIdOf(sms[h].phone)].state =
                    IF completes(sms[h].extractedData)
                    THEN "confirming" ELSE "collecting_info"
          /\ C13_NoBooking(h)]_vars

\* a complete booking message has arrived after the session of an earlier,
\* incomplete one expired: the fresh session is confirming and holds nothing
\* of the old one
C13_Witness ==
    /\ sms["w1"].pc = "done"
    /\ now = StartHour + 2
    /\ sms["w1"].exists
    /\ sms["w1"].existingState = NoState
    /\ sms["w1"].intent = "booking"
    /\ sms["w1"].reply = "summary"
    /\ hasSession(SmsPhone)
    /\ sessionOf(SmsPhone).state = "confirming"
    /\ sessionOf(SmsPhone).lastMessageAt = now
    /\ "slotTime" \notin DOMAIN sessionOf(SmsPhone).collectedData

\* the second message arrives two hours after the first one left a complete
\* session: the load has found none
C13_LoadYieldsNoneReached ==
    /\ sms["w1"].pc = "parsed"
    /\ sms["w1"].n = 2
    /\ sms["w1"].reply = "summary"
    /\ now = StartHour + 2
    /\ sms["w1"].intent = "confirmation"
    /\ sms["w1"].exists
    /\ sms["w1"].existingState = NoState
    /\ ~hasSession(SmsPhone)

\* the fresh session of a booking message that followed an expired session
C13_FreshSessionReached ==
    /\ sms["w1"].pc = "done"
    /\ sms["w1"].n = 2
    /\ now = StartHour + 2
    /\ sms["w1"].exists
    /\ sms["w1"].existingState = NoState
    /\ sms["w1"].intent = "booking"
    /\ sms["w1"].reply = "missing"
    /\ DOMAIN sms["w1"].extractedData = {"name", "slotTime"}
    /\ hasSession(SmsPhone)
    /\ sessionOf(SmsPhone).lastMessageAt = now
    /\ sessionOf(SmsPhone).state = "collecting_info"
    /\ DOMAIN sessionOf(SmsPhone).collectedData = {"name", "slotTime", "phone"}

\* the slot processBooking is to book: the collected one, or the first slot of
\* the date's list that is free
bookedSlotIs(data, date, slotTime) ==
    IF "slotTime" \in DOMAIN data
    THEN slotTime = charsOf(data.slotTime.v)
    ELSE \E i \in 1..Len(possibleSlots(date)) :
            /\ possibleSlots(date)[i] = slotTime
            /\ isSlotAvailable(date, slotTime)
            /\ \A j \in 1..(i-1) : ~isSlotAvailable(date, possibleSlots(date)[j])

C14_Step(h) ==
    /\ (sms[h].pc = "parsed" /\ sms'[h].pc = "booking")
        => LET data == sms[h].existingState[1].collectedData
           IN /\ workers'[h].date = parseDate(data.appointmentDate.v, todayOf(now)).day
              /\ bookedSlotIs(data, workers'[h].date, workers'[h].slot)
    /\ (sms[h].pc = "booking" /\ Ends(h) /\ workers[h].res = "ok")
        => /\ ~hasSession(sms[h].phone)'
           /\ workers[h].id \in DOMAIN bookings'
           /\ bookings'[workers[h].id].status = "confirmed"
           /\ bookings'[workers[h].id].appointmentDate = workers[h].date
           /\ bookings'[workers[h].id].slotTime = workers[h].slot
           /\ bookings'[workers[h].id].customerPhone = sms[h].phone
    /\ (Loads(h) /\ sms[h].reply = "confirmation" /\ sms[h].phone = sms'[h].phone)
        => sms'[h].existingState = NoState

\* C14: a confirmation-intent message for a session in the confirming state
\* whose booking commit succeeds creates a confirmed booking for the resolved
\* appointment date at the collected slot time, or at the first free slot of
\* the date when none was collected, and deletes the session, so that the
\* next message of the identity finds no session.
C14_ConfirmCommits == [][\A h \in Workers : C14_Step(h)]_vars

C14_Witness ==
    /\ sms["w1"].pc = "done"
    /\ sms["w1"].reply = "confirmation"
    /\ ~hasSession(SmsPhone)
    /\ sms["w1"].existingState # NoState
    /\ "slotTime" \notin DOMAIN sms["w1"].existingState[1].collectedData
    /\ bookingIdOf(customerIdOf(SmsPhone), 3) \in DOMAIN bookings
    /\ bookings[bookingIdOf(customerIdOf(SmsPhone), 3)].slotTime = L1130AM
    /\ bookings[bookingIdOf(customerIdOf(SmsPhone), 3)].status = "confirmed"
    /\ bookingIdOf("15552220000", 3) \in DOMAIN bookings

C15_Step(h) ==
    /\ (Ends(h) /\ sms'[h].reply = "unavailable")
        => /\ bookings' = bookings
           /\ hasSession(sms[h].phone)'
           /\ conversations'[stateIdOf(sms[h].phone)] = sms[h].existingState[1]
           /\ conversations'[stateIdOf(sms[h].phone)].state = "confirming"
    /\ (sms[h].pc = "booking" /\ CreateFails(h)) => bookings' = bookings
    /\ (sms[h].pc = "booking" /\ Ends(h) /\ workers[h].res = "SlotUnavailable")
        => sms'[h].reply = "unavailable"

\* C15: when the booking attempt of a confirmation-intent message is
\* rejected as slot-unavailable (the chosen slot is taken, or no slot of the
\* date is free), no booking is created and the session stays as it was,
\* with all its collected fields and its confirming state.
C15_UnavailableKeepsSession == [][\A h \in Workers : C15_Step(h)]_vars

C15_Witness ==
    /\ sms["w1"].pc = "done"
    /\ sms["w1"].reply = "unavailable"
    /\ workers["w1"].res = "SlotUnavailable"
    /\ workers["w1"].slot = L1215PM
    /\ hasSession(SmsPhone)
    /\ sessionOf(SmsPhone).state = "confirming"
    /\ holds(sessionOf(SmsPhone).collectedData, "slotTime", Str("12:15 PM"))
    /\ DOMAIN bookings = {bookingIdOf("15552220000", 3)}

\* the other case of C15 is reached as well: no slot of the date is free
C15_NoFreeSlotReached ==
    /\ sms["w1"].pc = "done"
    /\ sms["w1"].reply = "unavailable"
    /\ workers["w1"].op = "none"
    /\ hasSession(SmsPhone)

C16_Step(h) ==
    /\ (Loads(h) /\ sms'[h].intent \in {"greeting", "question"}
            /\ ~stale(sms'[h].phone))
        => conversations' = conversations /\ bookings' = bookings
    /\ (sms[h].pc = "parsed" /\ sms[h].intent \in {"greeting", "question"})
        => /\ sms'[h].pc = "done"
           /\ conversations' = conversations
           /\ bookings' = bookings
           /\ workers' = workers

\* C16: a greeting or question message leaves the session store untouched:
\* no session is created for an identity that has none, an unexpired session
\* keeps its collected fields, missing fields, state tag and expiry, and no
\* booking is created.
C16_GreetingQuestionNoEffect == [][\A h \in Workers : C16_Step(h)]_vars

C16_Witness ==
    /\ sms["w1"].pc = "done"
    /\ sms["w1"].intent = "question"
    /\ sms["w1"].reply = "faq"
    /\ now = StartHour + 1
    /\ hasSession(SmsPhone)
    /\ sessionOf(SmsPhone).expiresAt = now
    /\ sessionOf(SmsPhone) = sms["w1"].existingState[1]

C17_Step(h) ==
    /\ (Switches(h) /\ sms[h].intent = "cancellation")
        => ~hasSession(sms[h].phone)' /\ bookings' = bookings
    /\ (sms[h].pc = "parsed" /\ sms[h].intent = "cancellation") => sms'[h].pc = "done"
    /\ (Loads(h) /\ sms[h].intent = "cancellation" /\ sms[h].phone = sms'[h].phone)
        => sms'[h].existingState = NoState /\ bookings' = bookings
    /\ (Switches(h) /\ sms[h].reply = "cancelled"
            /\ sms[h].intent \in {"booking", "unknown"})
        => fromMessageAlone(conversations'[stateIdOf(sms[h].phone)].collectedData,
                            sms[h].extractedData, sms[h].phone)

\* C17: after a cancellation-intent message no session exists for the
\* identity, whatever state it was in (absent, collecting_info, confirming);
\* the next booking-intent message starts from empty collected fields, and
\* the cancellation changes no booking.
C17_CancellationClears == [][\A h \in Workers : C17_Step(h)]_vars

\* a cancellation has found a confirming session and left none
C17_Witness ==
    /\ sms["w1"].pc = "done"
    /\ sms["w1"].intent = "cancellation"
    /\ sms["w1"].reply = "cancelled"
    /\ sms["w1"].existingState # NoState
    /\ sms["w1"].existingState[1].state = "confirming"
    /\ ~hasSession(SmsPhone)

\* the booking message after a cancellation has started from nothing
C17_FreshStartReached ==
    /\ sms["w1"].pc = "parsed"
    /\ sms["w1"].intent = "booking"
    /\ sms["w1"].reply = "cancelled"
    /\ sms["w1"].existingState = NoState
    /\ DOMAIN sms["w1"].extractedData = {"appointmentDate", "groupSize"}
    /\ ~hasSession(SmsPhone)

-----------------------------------------------------------------------------
(* SpecBlock: the admin blocks and unblocks dates while the clock advances *)

\* the override stored under dateStr, if any
storedOverride(dateStr) ==
    IF dateStr \in DOMAIN blockedDates THEN <<blockedDates[dateStr]>> ELSE << >>

\* the last request: its body, the override it found (before) and the
\* override in its response (blocked)
NoBlockResp ==
    [ action |-> "none", date |-> 0, dateStr |-> "", reason |-> Undefined,
      blockedSlots |-> Undefined, before |-> << >>, blocked |-> << >> ]

\* POST /api/admin/schedule, action 'blockDate', with its response
PostBlockDate(date, reason, blockedSlots) ==
    /\ blockedDates' = blockDate(date, reason, blockedSlots)
    /\ admin' = admin + 1
    /\ resp' = [ action |-> "blockDate", date |-> date, dateStr |-> dateStrOf(date),
                 reason |-> reason, blockedSlots |-> blockedSlots,
                 before |-> storedOverride(dateStrOf(date)),
                 blocked |-> <<newBlockedDate(date, reason, blockedSlots)>> ]
    /\ UNCHANGED <<bookings, customers, scheduleConfig, workers, calls, cal,
                   conversations, now, sms, cron>>

\* POST /api/admin/schedule, action 'unblockDate', with its response
PostUnblockDate(date) ==
    /\ blockedDates' = unblockDate(dateStrOf(date))
    /\ admin' = admin + 1
    /\ resp' = [ action |-> "unblockDate", date |-> date, dateStr |-> dateStrOf(date),
                 reason |-> Undefined, blockedSlots |-> Undefined,
                 before |-> storedOverride(dateStrOf(date)), blocked |-> << >> ]
    /\ UNCHANGED <<bookings, customers, scheduleConfig, workers, calls, cal,
                   conversations, now, sms, cron>>

BlockDates == {3, 6}

UnblockDates == {3, 4, 6}

BlockReasons == {"Yom Tov", "Inventory", Undefined}

InitBlock ==
    /\ bookings = << >>
    /\ customers = << >>
    /\ scheduleConfig = << >>
    /\ blockedDates = << >>
    /\ workers = [w \in Workers |-> IdleWorker]
    /\ calls = 0
    /\ admin = 0
    /\ resp = NoBlockResp
    /\ cal = NoCal
    /\ conversations = << >>
    /\ now = StartHour
    /\ sms = [w \in Workers |-> IdleSms]
    /\ cron = IdleCron

AdminBlocks ==
    /\ admin < MaxBlockCalls
    /\ \E date \in BlockDates, reason \in BlockReasons,
          blockedSlots \in SchedBlockedSlots : PostBlockDate(date, reason, blockedSlots)

AdminUnblocks ==
    /\ admin < MaxBlockCalls
    /\ \E date \in UnblockDates : PostUnblockDate(date)

NextBlock == AdminBlocks \/ AdminUnblocks \/ ClockTick

SpecBlock == InitBlock /\ [][NextBlock]_vars

\* every override is stored under the date it is for
C18_KeyedByDate ==
    \A k \in DOMAIN blockedDates :
        /\ blockedDates[k].id = k
        /\ blockedDates[k].dateStr = k
        /\ dateStrOf(blockedDates[k].date) = k

C18_AtMostOne ==
    \A k1, k2 \in DOMAIN blockedDates :
        blockedDates[k1].date = blockedDates[k2].date => k1 = k2

othersKept(dateStr) ==
    \A k \in (DOMAIN blockedDates \cup DOMAIN blockedDates') \ {dateStr} :
        /\ k \in DOMAIN blockedDates
        /\ k \in DOMAIN blockedDates'
        /\ blockedDates'[k] = blockedDates[k]

\* the override a blockDate request asks for
requested(r) ==
    [ id |-> r.dateStr, date |-> r.date, dateStr |-> r.dateStr, reason |-> r.reason,
      blockedSlots |-> IF r.blockedSlots = Undefined THEN << >> ELSE r.blockedSlots,
      createdAt |-> now ]

C18_Block ==
    (admin' # admin /\ resp'.action = "blockDate")
    => /\ resp'.dateStr \in DOMAIN blockedDates'
       /\ blockedDates'[resp'.dateStr] = requested(resp')
       /\ resp'.blocked = <<requested(resp')>>
       /\ othersKept(resp'.dateStr)
       /\ (/\ resp'.before # << >>
           /\ resp'.before[1].reason = resp'.reason
           /\ resp'.before[1].blockedSlots = requested(resp').blockedSlots)
          => /\ DOMAIN blockedDates' = DOMAIN blockedDates
             /\ blockedDates'[resp'.dateStr] =
                    [resp'.before[1] EXCEPT !.createdAt = now]

C18_Unblock ==
    (admin' # admin /\ resp'.action = "unblockDate")
    => /\ resp'.dateStr \notin DOMAIN blockedDates'
       /\ othersKept(resp'.dateStr)

\* C18: blockDate is an idempotent upsert keyed by calendar date: there is at
\* most one override per date, blockDate with the arguments of the stored
\* override leaves that one override with its reason and slots, blockDate with
\* other arguments replaces every field of it, other dates are not touched,
\* and unblockDate leaves no override for its date.
C18_BlockDateUpsert ==
    /\ [](C18_KeyedByDate /\ C18_AtMostOne)
    /\ [][C18_Block /\ C18_Unblock]_vars

\* a request without reason has replaced an override that had one
C18_Witness ==
    /\ resp.action = "blockDate"
    /\ resp.before # << >>
    /\ resp.before[1].reason = "Yom Tov"
    /\ resp.before[1].blockedSlots = <<L1130AM>>
    /\ resp.reason = Undefined
    /\ resp.blockedSlots = Undefined
    /\ blockedDates[resp.dateStr].reason = Undefined
    /\ blockedDates[resp.dateStr].blockedSlots = << >>
    /\ Cardinality(DOMAIN blockedDates) = 2

\* the same request twice, an hour apart
C18_SameTwiceReached ==
    /\ resp.action = "blockDate"
    /\ resp.before # << >>
    /\ resp.before[1].reason = "Inventory"
    /\ resp.reason = "Inventory"
    /\ resp.before[1].blockedSlots = << >>
    /\ resp.blockedSlots = Undefined
    /\ resp.before[1].createdAt < now
    /\ DOMAIN blockedDates = {resp.dateStr}

\* an override has been removed
C18_UnblockedReached ==
    /\ resp.action = "unblockDate"
    /\ resp.before # << >>
    /\ resp.dateStr \notin DOMAIN blockedDates

-----------------------------------------------------------------------------
(* SpecSeq: one request handler issues the Booking Engine calls one after *)
(* the other                                                              *)

SeqDates == {3, 6}

SeqLabels == {L1130AM, L1215PM, L730PM}

SeqIds == { bookingIdOf(customerIdOf(p), d) : p \in Phones, d \in SeqDates }

SeqPatches == { [status |-> "completed"], [dayBeforeReminderSent |-> TRUE] }

SeqCreate ==
    /\ calls < MaxSeqCalls
    /\ \E phone \in Phones, date \in SeqDates, slotTime \in SeqLabels :
          CreateStart("w1", phone, "Sarah", date, slotTime, 4)

SeqReschedule ==
    /\ calls < MaxSeqCalls
    /\ \E id \in SeqIds, date \in SeqDates, slotTime \in SeqLabels :
          RescheduleStart("w1", id, date, slotTime)

SeqCancel ==
    /\ calls < MaxSeqCalls
    /\ \E id \in SeqIds : CancelBooking("w1", id)

SeqUpdate ==
    /\ calls < MaxSeqCalls
    /\ \E id \in SeqIds, updates \in SeqPatches : UpdateBooking("w1", id, updates)

NextSeq ==
    \/ SeqCreate
    \/ CreateCheck("w1")
    \/ CreateWrite("w1")
    \/ SeqReschedule
    \/ RescheduleCheck("w1")
    \/ RescheduleWrite("w1")
    \/ SeqCancel
    \/ SeqUpdate

SpecSeq == Init /\ [][NextSeq]_vars

\* the bookings other than id that hold (date, slotTime) without being cancelled
otherHolders(b, id, date, slotTime) ==
    { other \in DOMAIN b \ {id} :
        /\ b[other].appointmentDate = date
        /\ b[other].slotTime = slotTime
        /\ b[other].status # "cancelled" }

\* handler w performs cancelBooking
Cancels(w) == workers'[w].op = "cancel" /\ calls' = calls + 1

C19_Cancel(w) ==
    \A id \in SeqIds :
        (Cancels(w) /\ workers'[w].id = id) =>
           IF id \in DOMAIN bookings
           THEN /\ workers'[w].res = "ok"
                /\ bookings' = [bookings EXCEPT ![id].status = "cancelled"]
                /\ otherHolders(bookings', id, bookings[id].appointmentDate,
                                bookings[id].slotTime) = {}
                   => isSlotAvailable(bookings[id].appointmentDate,
                                      bookings[id].slotTime)'
           ELSE /\ workers'[w].res = "NotFound"
                /\ bookings' = bookings

\* a createBooking that has failed did not ask for a slot which a cancelled
\* booking has left to nobody
C19_Recreate ==
    \A w \in Workers :
        (workers[w].op = "create" /\ workers[w].pc = "done" /\ workers[w].res # "ok")
        => ~ /\ \E id \in DOMAIN bookings :
                    /\ bookings[id].appointmentDate = workers[w].date
                    /\ bookings[id].slotTime = workers[w].slot
                    /\ bookings[id].status = "cancelled"
             /\ otherHolders(bookings, << >>, workers[w].date, workers[w].slot) = {}

\* C19: cancelBooking on an existing booking always succeeds and sets its
\* status to cancelled whatever the occupancy of any slot; isSlotAvailable is
\* then true for the booking's (date, slot) when no other non-cancelled
\* booking holds it, and a createBooking issued afterwards for that slot
\* succeeds; on an unknown id it returns NotFound and changes no booking.
C19_CancelFreesSlot ==
    /\ []C19_Recreate
    /\ [][\A w \in Workers : C19_Cancel(w)]_vars

\* the second customer holds the slot the first one cancelled
C19_Witness ==
    /\ workers["w1"].op = "create"
    /\ workers["w1"].pc = "done"
    /\ workers["w1"].res = "ok"
    /\ workers["w1"].phone = "+15552220000"
    /\ bookingIdOf(customerIdOf("+15551110000"), 3) \in DOMAIN bookings
    /\ bookings[bookingIdOf(customerIdOf("+15551110000"), 3)].status = "cancelled"
    /\ bookings[bookingIdOf(customerIdOf("+15551110000"), 3)].slotTime = L1130AM
    /\ bookings[workers["w1"].id].slotTime = L1130AM
    /\ bookings[workers["w1"].id].appointmentDate = 3
    /\ bookings[workers["w1"].id].status = "confirmed"

\* cancelBooking has answered NotFound
C19_NotFoundReached ==
    /\ workers["w1"].op = "cancel"
    /\ workers["w1"].res = "NotFound"
    /\ bookings # << >>

\* handler w ends a rescheduleBooking with SlotUnavailable
RescheduleFails(w) ==
    /\ workers[w].pc = "rs_check"
    /\ workers'[w].pc = "done"
    /\ workers'[w].res = "SlotUnavailable"

C20_Step(w) ==
    /\ RescheduleFails(w)
        => /\ bookings' = bookings
           /\ bookings[workers[w].id].status \in OccupyingStatuses
              => ~isSlotAvailable(bookings[workers[w].id].appointmentDate,
                                  bookings[workers[w].id].slotTime)'
    /\ (workers'[w].op = "reschedule" /\ calls' = calls + 1) => bookings' = bookings

\* C20: a rescheduleBooking that fails with SlotUnavailable (the new slot is
\* not valid or is held by a non-cancelled booking) leaves the bookings as
\* they were when the call was issued: the original booking keeps its date,
\* slot, status and reminder flag, and its slot stays occupied.
C20_FailedRescheduleUntouched == [][\A w \in Workers : C20_Step(w)]_vars

\* a reschedule onto the slot of the other customer has failed; the booking
\* is where it was
C20_Witness ==
    /\ workers["w1"].op = "reschedule"
    /\ workers["w1"].pc = "done"
    /\ workers["w1"].res = "SlotUnavailable"
    /\ workers["w1"].slot = L1215PM
    /\ workers["w1"].date = 3
    /\ workers["w1"].id = bookingIdOf(customerIdOf("+15551110000"), 3)
    /\ bookings[workers["w1"].id].slotTime = L1130AM
    /\ bookings[workers["w1"].id].status = "confirmed"
    /\ bookingIdOf(customerIdOf("+15552220000"), 3) \in DOMAIN bookings
    /\ bookings[bookingIdOf(customerIdOf("+15552220000"), 3)].slotTime = L1215PM
    /\ bookings[bookingIdOf(customerIdOf("+15552220000"), 3)].status = "confirmed"

\* a reschedule to a time that is no appointment time has failed
C20_InvalidSlotReached ==
    /\ workers["w1"].op = "reschedule"
    /\ workers["w1"].res = "SlotUnavailable"
    /\ workers["w1"].date = 6
    /\ workers["w1"].slot = L1130AM
    /\ bookings[workers["w1"].id].appointmentDate = 3

\* handler w ends a rescheduleBooking with success
Reschedules(w) ==
    /\ workers[w].pc = "rs_write"
    /\ workers'[w].pc = "done"
    /\ workers'[w].res = "ok"

C21_Step(w) ==
    \A id \in SeqIds, oldDate \in SeqDates, oldSlot \in SeqLabels :
        (/\ Reschedules(w)
         /\ workers[w].id = id
         /\ bookings[id].appointmentDate = oldDate
         /\ bookings[id].slotTime = oldSlot)
        => /\ bookings' = [bookings EXCEPT ![id] =
                  [@ EXCEPT !.appointmentDate = workers[w].date,
                            !.slotTime = workers[w].slot,
                            !.dayBeforeReminderSent = FALSE]]
           /\ otherHolders(bookings, id, oldDate, oldSlot) = {}
              => isSlotAvailable(oldDate, oldSlot)'
           /\ bookings[id].status = "confirmed"
              => /\ id \in getBookingsNeedingReminder(workers[w].date)'
                 /\ ~isSlotAvailable(workers[w].date, workers[w].slot)'

\* C21: a successful rescheduleBooking moves the booking to the new (date,
\* slot) and changes nothing else but the day-before-reminder flag, which it
\* sets to false; the old pair is free afterwards when no other booking holds
\* it, and a confirmed booking, whether or not its reminder had been sent, is
\* returned by getBookingsNeedingReminder for the new date.
C21_RescheduleMoves == [][\A w \in Workers : C21_Step(w)]_vars

\* a confirmed booking whose reminder had been sent is about to be moved
C21_ReminderSentReached ==
    /\ workers["w1"].pc = "rs_write"
    /\ workers["w1"].date = 6
    /\ bookings[workers["w1"].id].status = "confirmed"
    /\ bookings[workers["w1"].id].dayBeforeReminderSent = TRUE

\* the third call has moved the only booking from Wednesday 11:30 AM to
\* Motzei Shabbos 7:30 PM; the query for the new date returns it
C21_Witness ==
    /\ workers["w1"].op = "reschedule"
    /\ workers["w1"].pc = "done"
    /\ workers["w1"].res = "ok"
    /\ calls = 3
    /\ DOMAIN bookings = {bookingIdOf(customerIdOf("+15551110000"), 3)}
    /\ bookings[workers["w1"].id].appointmentDate = 6
    /\ bookings[workers["w1"].id].slotTime = L730PM
    /\ getBookingsNeedingReminder(6) = {workers["w1"].id}
    /\ getBookingsNeedingReminder(3) = {}
    /\ isSlotAvailable(3, L1130AM)

-----------------------------------------------------------------------------
(* SpecSize: bookings of parties of several sizes are created, moved and *)
(* patched, one call after the other                                     *)

SizeDates == {3}

SizeLabels == {L1130AM, L1215PM}

SizeSizes == {0, 3, 5, 7}

SizeIds == { bookingIdOf(customerIdOf(p), d) : p \in Phones, d \in SizeDates }

\* the party-size changes the admin dashboard sends to updateBooking
SizePatches == { [groupSize |-> 5], [groupSize |-> 8] }

SizeCreate ==
    /\ calls < MaxSizeCalls
    /\ \E phone \in Phones, date \in SizeDates, slotTime \in SizeLabels,
          groupSize \in SizeSizes :
          CreateStart("w1", phone, "Sarah", date, slotTime, groupSize)

SizeReschedule ==
    /\ calls < MaxSizeCalls
    /\ \E id \in SizeIds, date \in SizeDates, slotTime \in SizeLabels :
          RescheduleStart("w1", id, date, slotTime)

SizeUpdate ==
    /\ calls < MaxSizeCalls
    /\ \E id \in SizeIds, updates \in SizePatches : UpdateBooking("w1", id, updates)

NextSize ==
    \/ SizeCreate
    \/ CreateCheck("w1")
    \/ CreateWrite("w1")
    \/ SizeReschedule
    \/ RescheduleCheck("w1")
    \/ RescheduleWrite("w1")
    \/ SizeUpdate

SpecSize == Init /\ [][NextSize]_vars

\* C22: every stored non-cancelled booking has a party size between 1 and 6,
\* a party of more than 4 only on the last slot of its weekday's list, and a
\* slotDuration of 30 exactly when the party is of more than 4.
C22_PartySizeInvariant ==
    \A id \in DOMAIN bookings :
        bookings[id].status # "cancelled" =>
            /\ bookings[id].groupSize \in 1..6
            /\ bookings[id].groupSize > 4
                  => bookings[id].slotTime = lastSlot(bookings[id].appointmentDate)
            /\ bookings[id].slotDuration = 30 <=> bookings[id].groupSize > 4

\* the three ways in which the code leaves the invariant
C22_MovedOffLastSlotReached ==
    \E id \in DOMAIN bookings :
        /\ workers["w1"].op = "reschedule"
        /\ workers["w1"].res = "ok"
        /\ bookings[id].groupSize = 5
        /\ bookings[id].slotTime = L1130AM

C22_PatchedSizeReached ==
    \E id \in DOMAIN bookings :
        /\ workers["w1"].op = "update"
        /\ bookings[id].groupSize = 8
        /\ bookings[id].slotDuration = 15

C22_EmptyPartyReached ==
    \E id \in DOMAIN bookings :
        /\ calls = 1
        /\ bookings[id].groupSize = 0
        /\ bookings[id].status = "confirmed"

-----------------------------------------------------------------------------
(* SpecDate: parseDate on the weekday phrases, for the reference dates of *)
(* two weeks                                                              *)

\* the reference dates: Sunday 2024-03-03 to Saturday 2024-03-16
DateRefs == 0..13

\* the weekday phrases, each with the qualifier and the weekday it names
DatePhrases ==
    {
      [text |-> "Sunday", qualifier |-> "none", weekday |-> 0],
      [text |-> "this Sunday", qualifier |-> "this", weekday |-> 0],
      [text |-> "next Sunday", qualifier |-> "next", weekday |-> 0],
      [text |-> "Monday", qualifier |-> "none", weekday |-> 1],
      [text |-> "this Monday", qualifier |-> "this", weekday |-> 1],
      [text |-> "next Monday", qualifier |-> "next", weekday |-> 1],
      [text |-> "Tuesday", qualifier |-> "none", weekday |-> 2],
      [text |-> "this Tuesday", qualifier |-> "this", weekday |-> 2],
      [text |-> "next Tuesday", qualifier |-> "next", weekday |-> 2],
      [text |-> "Wednesday", qualifier |-> "none", weekday |-> 3],
      [text |-> "this Wednesday", qualifier |-> "this", weekday |-> 3],
      [text |-> "next Wednesday", qualifier |-> "next", weekday |-> 3],
      [text |-> "Thursday", qualifier |-> "none", weekday |-> 4],
      [text |-> "this Thursday", qualifier |-> "this", weekday |-> 4],
      [text |-> "next Thursday", qualifier |-> "next", weekday |-> 4],
      [text |-> "Friday", qualifier |-> "none", weekday |-> 5],
      [text |-> "this Friday", qualifier |-> "this", weekday |-> 5],
      [text |-> "next Friday", qualifier |-> "next", weekday |-> 5],
      [text |-> "Saturday", qualifier |-> "none", weekday |-> 6],
      [text |-> "this Saturday", qualifier |-> "this", weekday |-> 6],
      [text |-> "next Saturday", qualifier |-> "next", weekday |-> 6],
      [text |-> "Shabbos", qualifier |-> "none", weekday |-> 6],
      [text |-> "Motzei Shabbos", qualifier |-> "none", weekday |-> 6],
      [text |-> "this Shabbos", qualifier |-> "this", weekday |-> 6],
      [text |-> "this Motzei Shabbos", qualifier |-> "this", weekday |-> 6],
      [text |-> "next Shabbos", qualifier |-> "next", weekday |-> 6],
      [text |-> "next Motzei Shabbos", qualifier |-> "next", weekday |-> 6]
    }

InitDate ==
    /\ bookings = << >>
    /\ customers = << >>
    /\ scheduleConfig = << >>
    /\ blockedDates = << >>
    /\ workers = [w \in Workers |-> IdleWorker]
    /\ calls = 0
    /\ admin = 0
    /\ resp = NoResp
    /\ conversations = << >>
    /\ now = StartHour
    /\ sms = [w \in Workers |-> IdleSms]
    /\ cron = IdleCron
    /\ \E referenceDate \in DateRefs, phrase \in DatePhrases :
          cal = [ referenceDate |-> referenceDate, phrase |-> phrase,
                  parsed |-> FALSE, result |-> NoDate ]

\* parseDate(dateStr, referenceDate)
ParseDate ==
    /\ ~cal.parsed
    /\ cal' = [cal EXCEPT !.parsed = TRUE,
                          !.result = parseDate(cal.phrase.text, cal.referenceDate)]
    /\ UNCHANGED <<bookings, customers, scheduleConfig, blockedDates, workers, calls,
                   admin, resp, conversations, now, sms, cron>>

NextDate == ParseDate

SpecDate == InitDate /\ [][NextDate]_vars

\* the days from the reference date to the weekday of its Sunday-to-Saturday
\* week; positive when that occurrence is still ahead
aheadInWeek(referenceDate, weekday) == weekday - (referenceDate % 7)

C23_Weekday ==
    cal.parsed =>
        /\ cal.result.ok
        /\ cal.result.day % 7 = cal.phrase.weekday
        /\ cal.phrase.qualifier \in {"none", "this"}
              => cal.result.day - cal.referenceDate \in 1..7
        /\ (/\ cal.phrase.qualifier = "next"
            /\ aheadInWeek(cal.referenceDate, cal.phrase.weekday) > 0)
              => cal.result.day = cal.referenceDate
                      + aheadInWeek(cal.referenceDate, cal.phrase.weekday) + 7

\* with reference Monday 2024-03-04 (day 1): March 13 is day 10, March 6 day 3
C23_Examples ==
    (cal.parsed /\ cal.referenceDate = 1) =>
        /\ cal.phrase.text = "next Wednesday" => cal.result.day = 10
        /\ cal.phrase.text = "this Wednesday" => cal.result.day = 3
        /\ cal.phrase.text = "Motzei Shabbos" => cal.result.day = 6

\* C23: parseDate of a bare weekday name or of 'this <weekday>' is the
\* nearest occurrence of the weekday strictly after the reference date (1 to
\* 7 days ahead), 'next <weekday>' is 7 days after the occurrence of the same
\* week when that is still ahead; from Monday 2024-03-04 'next Wednesday' is
\* March 13 and 'this Wednesday' March 6, and 'Motzei Shabbos' is a Saturday.
C23_WeekdayPhrases == C23_Weekday /\ C23_Examples

\* a bare weekday name on its own weekday: a week ahead
C23_Witness ==
    /\ cal.parsed
    /\ cal.phrase.text = "Wednesday"
    /\ cal.referenceDate = 3
    /\ cal.result.ok
    /\ cal.result.day = 10

C23_NextWednesdayReached ==
    /\ cal.parsed
    /\ cal.phrase.text = "next Wednesday"
    /\ cal.referenceDate = 1
    /\ cal.result.day = 10

-----------------------------------------------------------------------------
(* Replies to rejected booking attempts, under SpecSms *)

\* the confirmation of handler h ends without a booking
Rejects(h) ==
    /\ Ends(h)
    /\ sms[h].intent = "confirmation"
    /\ sms[h].existingState # NoState
    /\ sms'[h].reply \in {"dates", "unavailable", "error"}

\* C24: the reply to every rejected booking attempt lists alternative dates
\* that have a free slot, or tells the customer to call; here for the SMS
\* confirmation path.
C24_RejectionOffersWayOut ==
    [][\A h \in Workers :
          Rejects(h) =>
             \/ namesFallback(sms'[h].reply)
             \/ /\ listsAlternatives(sms'[h].reply)
                /\ \A i \in 1..Len(alternativesOf(now)) :
                      getAvailableSlotsForDate(alternativesOf(now)[i]) # << >>]_vars

\* the two rejections that leave the customer without a way out
C24_DatesReplyReached ==
    /\ sms["w1"].pc = "done"
    /\ sms["w1"].intent = "confirmation"
    /\ sms["w1"].reply = "dates"

C24_BookedAlternativeReached ==
    /\ sms["w1"].pc = "done"
    /\ sms["w1"].reply = "unavailable"
    /\ alternativesOf(now)[1] = 3
    /\ getAvailableSlotsForDate(3) = << >>

-----------------------------------------------------------------------------
(* Daily check: the day-before customer reminders *)

\* markReminderSent(db, bookingId, 'dayBefore')
markReminderSent(bookingId) ==
    updateDoc(bookings, bookingId, [dayBeforeReminderSent |-> TRUE])

\* a variant of the loop's write that marks only what sendSms reports as sent
markedAfterSend_onSuccess(bookingId, success) ==
    IF success THEN markReminderSent(bookingId) ELSE bookings

\* lines 112-113: the loop calls markReminderSent whatever sendSms returned
markedAfterSend(bookingId, success) == markReminderSent(bookingId)

\* the orders in which the query can return a set of bookings
ordersOf(ids) ==
    { q \in [1..Cardinality(ids) -> ids] : \A i, j \in DOMAIN q : q[i] = q[j] => i = j }

\* lines 96-100: the query for the bookings of tomorrow
CronQuery ==
    /\ cron.pc = "idle"
    /\ cron.runs < MaxCronRuns
    /\ \E q \in ordersOf(getBookingsNeedingReminder(todayOf(now) + 1)) :
          cron' = [cron EXCEPT !.pc = "loop", !.runs = @ + 1, !.queue = q]
    /\ UNCHANGED <<bookings, customers, scheduleConfig, blockedDates, workers, calls,
                   admin, resp, cal, conversations, now, sms>>

\* line 112: sendSms, which catches every error and returns its outcome
CronSend(success) ==
    /\ cron.pc = "loop"
    /\ cron.queue # << >>
    /\ cron' = [cron EXCEPT
                  !.pc = "sent", !.success = success,
                  !.delivered = IF success THEN @ \cup {cron.queue[1]} ELSE @,
                  !.failed = IF success THEN @ ELSE @ \cup {cron.queue[1]}]
    /\ UNCHANGED <<bookings, customers, scheduleConfig, blockedDates, workers, calls,
                   admin, resp, cal, conversations, now, sms>>

\* lines 113-114: markReminderSent, and on to the next booking
CronMark ==
    /\ cron.pc = "sent"
    /\ bookings' = markedAfterSend(cron.queue[1], cron.success)
    /\ cron' = [cron EXCEPT !.pc = "loop", !.queue = Tail(@)]
    /\ UNCHANGED <<customers, scheduleConfig, blockedDates, workers, calls,
                   admin, resp, cal, conversations, now, sms>>

\* the loop has run through the query's result
CronEnd ==
    /\ cron.pc = "loop"
    /\ cron.queue = << >>
    /\ cron' = [cron EXCEPT !.pc = "idle"]
    /\ UNCHANGED <<bookings, customers, scheduleConfig, blockedDates, workers, calls,
                   admin, resp, cal, conversations, now, sms>>

-----------------------------------------------------------------------------
(* SpecRemind: the daily check runs on Tuesday 2024-03-05 over the bookings *)
(* of Wednesday                                                             *)

RemindPhones == {"+15551110000", "+15552220000", "+15553330000"}

\* the Wednesday booking of a customer, on the slot createBooking gave them
remindBooking(phone) ==
    newBooking(phone, "Sarah", 3,
               CASE phone = "+15551110000" -> L1130AM
                 [] phone = "+15552220000" -> L1145AM
                 [] OTHER                  -> L1200PM,
               2)

RemindStores ==
    { [id \in {bookingIdOf(customerIdOf(p), 3) : p \in ps} |->
          remindBooking(CHOOSE p \in ps : customerIdOf(p) = id[1])] :
      ps \in SUBSET RemindPhones }

InitRemind ==
    /\ bookings \in RemindStores
    /\ customers = [c \in {bookings[id].customerId : id \in DOMAIN bookings} |-> "Sarah"]
    /\ scheduleConfig = << >>
    /\ blockedDates = << >>
    /\ workers = [w \in Workers |-> IdleWorker]
    /\ calls = 0
    /\ admin = 0
    /\ resp = NoResp
    /\ cal = NoCal
    /\ conversations = << >>
    /\ now = StartHour + 24
    /\ sms = [w \in Workers |-> IdleSms]
    /\ cron = IdleCron

NextRemind ==
    \/ CronQuery
    \/ \E success \in BOOLEAN : CronSend(success)
    \/ CronMark
    \/ CronEnd

SpecRemind == InitRemind /\ [][NextRemind]_vars

\* C25: the day-before-reminder flag of a booking is set only after its
\* reminder was delivered; a booking whose delivery failed keeps the flag
\* false and is returned again by the next run's query.
C25_MarkedOnlyAfterDelivery ==
    /\ \A id \in DOMAIN bookings :
          bookings[id].dayBeforeReminderSent => id \in cron.delivered
    /\ \A id \in cron.failed \ cron.delivered :
          cron.pc = "idle" => id \in getBookingsNeedingReminder(todayOf(now) + 1)

\* a delivery has failed and the booking is marked as reminded
C25_MarkedUndeliveredReached ==
    \E id \in DOMAIN bookings :
        /\ id \in cron.failed
        /\ id \notin cron.delivered
        /\ bookings[id].dayBeforeReminderSent
        /\ cron.pc = "idle"
        /\ cron.runs = 2

-----------------------------------------------------------------------------
(* Confirmations without a complete session, under SpecSms *)

\* the sessions a load can return: those that have not expired
visibleSessions ==
    [k \in {k \in DOMAIN conversations : conversations[k].expiresAt >= now} |->
        conversations[k]]

\* the message of request m is a confirmation, and the load found no session,
\* an expired session, or a session with a required field missing
noSessionFor(m) == m.intent = "confirmation" /\ ~m.exists

expiredSessionFor(m) ==
    m.intent = "confirmation" /\ m.exists /\ m.existingState = NoState

collectingSessionFor(m) ==
    /\ m.intent = "confirmation"
    /\ m.existingState # NoState
    /\ m.existingState[1].state = "collecting_info"

incomplete(m) == noSessionFor(m) \/ expiredSessionFor(m) \/ collectingSessionFor(m)

\* a stored session is in collecting_info exactly when a required field is
\* missing from its collected data, and in confirming otherwise
C26_States ==
    \A k \in DOMAIN conversations :
        /\ conversations[k].state \in {"collecting_info", "confirming"}
        /\ conversations[k].state = "collecting_info"
             <=> Len(getMissingFields(conversations[k].collectedData)) > 0

C26_Load(h) ==
    (Loads(h) /\ incomplete(sms'[h]))
        => /\ bookings' = bookings
           /\ customers' = customers
           /\ visibleSessions' = visibleSessions
           /\ ~expiredSessionFor(sms'[h]) => conversations' = conversations

C26_Switch(h) ==
    (sms[h].pc = "parsed" /\ incomplete(sms[h]) /\ sms'[h] # sms[h])
        => /\ Switches(h)
           /\ sms'[h].reply = "nothing-to-confirm"
           /\ bookings' = bookings
           /\ customers' = customers
           /\ workers' = workers
           /\ conversations' = conversations

C26_OnlyFromComplete(h) ==
    (bookings' # bookings)
        => /\ sms[h].pc = "booking"
           /\ sms[h].intent = "confirmation"
           /\ sms[h].existingState # NoState
           /\ sms[h].existingState[1].state = "confirming"
           /\ Len(getMissingFields(sms[h].existingState[1].collectedData)) = 0

C26_ExpiredConfirmationReached ==
    /\ sms["w1"].pc = "done"
    /\ expiredSessionFor(sms["w1"])
    /\ sms["w1"].reply = "nothing-to-confirm"
    /\ ~hasSession(SmsPhone)
    /\ SmsPhone \notin {bookings[id].customerPhone : id \in DOMAIN bookings}

\* a confirmation has been answered for an identity that had no session
C26_NoSessionConfirmationReached ==
    /\ sms["w1"].pc = "done"
    /\ noSessionFor(sms["w1"])
    /\ sms["w1"].reply = "nothing-to-confirm"
    /\ ~hasSession(SmsPhone)
    /\ bookings # << >>

-----------------------------------------------------------------------------
(* SpecPair: one customer texts and two webhook requests run side by side *)

\* what the extraction oracle answers for the messages of the customer
PairMessages ==
    { [ intent |-> "booking",
        extractedData |->
          [ name |-> Str("Sarah"), appointmentDate |-> Str("this Wednesday"),
            groupSize |-> Num(2), weddingDate |-> Str("April 12") ] ],
      [ intent |-> "booking", extractedData |-> [ slotTime |-> Str("12:15 PM") ] ],
      [ intent |-> "confirmation", extractedData |-> << >> ] }

PairReceive ==
    \E h \in Workers, m \in PairMessages :
        /\ sms[h].n < MaxPairMsgs
        /\ SmsLoad(h, SmsPhone, m.intent, m.extractedData)

NextPair ==
    \/ PairReceive
    \/ \E h \in Workers : SmsHandle(h)
    \/ \E h \in Workers : CreateCheck(h)
    \/ \E h \in Workers : CreateWrite(h)
    \/ \E h \in Workers : SmsBooked(h)

SpecPair == Init /\ [][NextPair]_vars

-----------------------------------------------------------------------------
(* Properties of concurrent requests under SpecPair *)

\* the two objects have the same populated properties
sameData(a, b) ==
    /\ DOMAIN a = DOMAIN b
    /\ \A f \in DOMAIN a : same(a[f], b[f])

\* the message of request m goes to the booking branch of the switch
bookingIntent(m) ==
    m.intent \notin {"greeting", "question", "cancellation", "confirmation"}

\* the session in the store is no longer the one request g has loaded
overtaken(g) ==
    /\ hasSession(sms[g].phone)
    /\ \/ sms[g].existingState = NoState
       \/ /\ sms[g].existingState # NoState
          /\ ~sameData(sms[g].existingState[1].collectedData,
                       sessionOf(sms[g].phone).collectedData)

\* request g writes its session while request h, which loaded side by side
\* with it, has written its own
C27_Step(g, h) ==
    ( /\ g # h
      /\ Switches(g) /\ bookingIntent(sms[g])
      /\ sms[h].pc = "done" /\ bookingIntent(sms[h])
      /\ sms[h].phone = sms[g].phone
      /\ overtaken(g) )
    => LET prior == sessionOf(sms[g].phone).collectedData
           new   == conversations'[stateIdOf(sms[g].phone)].collectedData
       IN \A f \in DOMAIN prior \cup DOMAIN sms[g].extractedData
                                 \cup DOMAIN sms[h].extractedData :
             ( \/ supplies(sms[g].extractedData, f)
               \/ supplies(sms[h].extractedData, f)
               \/ f \in DOMAIN prior /\ nonEmpty(prior[f]) )
             => f \in DOMAIN new /\ nonEmpty(new[f])

\* C27: when two booking-intent messages of one identity are processed
\* concurrently, the session that results holds the populated fields of both
\* messages and of the prior session; no field either message supplied is
\* lost.
C27_ConcurrentUpdatesJoin ==
    [][\A g, h \in Workers : C27_Step(g, h)]_vars

\* the two requests have each handled one booking message, and the session
\* lacks the slot time one of them supplied
C27_LostFieldReached ==
    /\ \A h \in Workers : sms[h].pc = "done" /\ sms[h].n = 1 /\ sms[h].intent = "booking"
    /\ supplies(sms["w1"].extractedData, "slotTime")
    /\ supplies(sms["w2"].extractedData, "name")
    /\ hasSession(SmsPhone)
    /\ "slotTime" \notin DOMAIN sessionOf(SmsPhone).collectedData
    /\ holds(sessionOf(SmsPhone).collectedData, "name", Str("Sarah"))

\* request h has committed a booking for its confirmation
committedFrom(h) ==
    /\ sms[h].intent = "confirmation"
    /\ sms[h].existingState # NoState
    /\ \/ sms[h].pc = "booking"
       \/ sms[h].pc = "done" /\ sms[h].reply = "confirmation"
    /\ workers[h].pc = "done"
    /\ workers[h].res = "ok"

\* the confirmations of g and h have loaded the same session
sameSession(g, h) ==
    /\ sms[g].existingState # NoState
    /\ sms[h].existingState # NoState
    /\ sms[g].phone = sms[h].phone
    /\ sms[g].existingState[1].lastMessageAt = sms[h].existingState[1].lastMessageAt
    /\ sameData(sms[g].existingState[1].collectedData,
                sms[h].existingState[1].collectedData)

\* the write of createBooking for the confirmation of g, after h has
\* committed the booking of the same session
C28_Step(g, h) ==
    ( /\ g # h
      /\ sms[g].pc = "booking" /\ sms[g].intent = "confirmation"
      /\ workers[g].pc = "cb_write"
      /\ committedFrom(h)
      /\ sameSession(g, h) )
    => bookings' = bookings

\* C28: one completed session yields at most one booking: of two
\* confirmations of the same confirming session, processed concurrently or
\* back to back, the second creates no further booking and does not replace
\* the first booking with one at a different slot.
C28_OneBookingPerSession ==
    [][\A g, h \in Workers : C28_Step(g, h)]_vars

\* three messages were handled, one booking message and two confirmations;
\* both confirmations were answered with a booking, the first for 11:30 AM,
\* and the one stored booking is at 11:45 AM
C28_ReplacedBookingReached ==
    /\ sms["w1"].n + sms["w2"].n = 3
    /\ \A h \in Workers : sms[h].pc = "done" /\ sms[h].reply = "confirmation"
    /\ workers["w1"].res = "ok" /\ workers["w1"].ret.slotTime = L1130AM
    /\ workers["w2"].res = "ok" /\ workers["w2"].ret.slotTime = L1145AM
    /\ DOMAIN bookings = {bookingIdOf(customerIdOf(SmsPhone), 3)}
    /\ bookings[bookingIdOf(customerIdOf(SmsPhone), 3)].slotTime = L1145AM

\* back to back: the second confirmation finds the session deleted
C28_BackToBackReached ==
    /\ sms["w1"].n = 2 /\ sms["w2"].n = 1
    /\ sms["w1"].pc = "done" /\ sms["w1"].reply = "confirmation"
    /\ sms["w2"].pc = "done" /\ sms["w2"].intent = "confirmation"
    /\ sms["w2"].reply = "nothing-to-confirm"
    /\ Cardinality(DOMAIN bookings) = 1

-----------------------------------------------------------------------------
(* The bookings collection as a ledger, under SpecSeq *)

\* the step in which createBooking of handler w returns a booking
CreateCommits(w) ==
    /\ workers[w].op = "create"
    /\ workers[w].pc = "cb_write"
    /\ workers'[w].pc = "done"
    /\ workers'[w].res = "ok"

C29_Step(w) ==
    /\ DOMAIN bookings \subseteq DOMAIN bookings'
    /\ CreateCommits(w)
         => /\ \A id \in DOMAIN bookings : bookings'[id] = bookings[id]
            /\ DOMAIN bookings' # DOMAIN bookings

\* C29: no operation removes the record of a booking, and a successful
\* createBooking (one by the same customer for the same date at another slot
\* included) adds a new record and leaves every existing booking as it was.
C29_BookingsNeverReplaced == [][C29_Step("w1")]_vars

\* createBooking has returned a booking for 12:15 PM whose customer was
\* already known; two calls were made
C29_SecondCreateReached ==
    /\ calls = 2
    /\ workers["w1"].op = "create"
    /\ workers["w1"].pc = "done"
    /\ workers["w1"].res = "ok"
    /\ workers["w1"].slot = L1215PM
    /\ Cardinality(DOMAIN bookings) = 1
    /\ Cardinality(DOMAIN customers) = 1

-----------------------------------------------------------------------------
(* createBooking calls that fail, under SpecSize *)

CreateFailures == {"SlotUnavailable", "PartySizeRequiresLastSlot", "PartySizeExceeded"}

\* createBooking of handler w has thrown
createFailed(w) ==
    /\ workers[w].op = "create"
    /\ workers[w].pc = "done"
    /\ workers[w].res \in CreateFailures

\* the customer has a booking in the store
hasBooking(customerId) ==
    \E id \in DOMAIN bookings : bookings[id].customerId = customerId

\* the step in which createBooking throws writes no booking
C30_Throw(w) ==
    (workers[w].op = "create" /\ workers[w].pc # "done" /\ createFailed(w)')
        => bookings' = bookings

\* after the failed call a customer record exists only for a customer who
\* has a booking, that is, who was upserted by a call that succeeded
C30_NoOrphan(w) ==
    (createFailed(w) /\ customerIdOf(workers[w].phone) \in DOMAIN customers)
        => hasBooking(customerIdOf(workers[w].phone))

\* C30: a createBooking call that fails with SlotUnavailable,
\* PartySizeRequiresLastSlot or PartySizeExceeded leaves the store unchanged:
\* no booking is written and no customer record is created.
C30_FailedCreateWritesNothing ==
    /\ [](\A w \in Workers : C30_NoOrphan(w))
    /\ [][\A w \in Workers : C30_Throw(w)]_vars

\* the first call was a createBooking for a party of seven: it has thrown, and
\* the customers collection holds the caller
C30_CustomerOfFailedCallReached ==
    /\ calls = 1
    /\ createFailed("w1")
    /\ workers["w1"].res = "PartySizeExceeded"
    /\ bookings = << >>
    /\ DOMAIN customers = {customerIdOf(workers["w1"].phone)}

=============================================================================
